---- MODULE Spec2Model ----
(***************************************************************************)
(* Model of the PDF joiner backend: the session-scoped file registry       *)
(* (FileManager) over its upload directory, the merge route with its job   *)
(* registry, and the on-demand thumbnail cache.                            *)
(*                                                                         *)
(* File names are sequences of one-character strings, so that the          *)
(* "{file_id}_{filename}" naming convention, the globs and the splits on   *)
(* '_' are computed the way the code computes them.                        *)
(***************************************************************************)
EXTENDS Integers, Sequences, FiniteSets, TLC

VARIABLES
    sessions,     \* FileManager.sessions: session_id -> [created_at, files]
    upDirs,       \* session folders under UPLOAD_FOLDER: session_id -> mtime
    upFiles,      \* files under UPLOAD_FOLDER: set of [sid, name, pages, size, mtime]
    usedIds,      \* file ids secrets.token_urlsafe has already returned
    now,          \* datetime.now(), a logical clock that counts hours
    cleanupRuns,  \* runs of the scheduler's cleanup job so far, modulo 2
    ret,          \* the last registry call and the value it returned
    lastList,     \* the triples of the latest ListFiles, while nothing else was called since
    preRestart,   \* lastList as it was when the process restarted
    refSessions,  \* the registry of a reference process that is given the
    refDirs,      \*   same calls and never restarts, with its own upload
    refFiles,     \*   folder
    refRet,       \* what the reference process returned for the last call
    job_manager,  \* app.config['job_manager']: job_id -> job record
    mergedDirs,   \* session folders under MERGED_FOLDER
    mergedFiles,  \* files under MERGED_FOLDER: set of [sid, name, pages, complete, encrypted, mtime]
    usedJobIds,   \* job ids secrets.token_urlsafe has already returned
    jobLog,       \* history: job_id -> the record the merge route stored for it
    thumbDirs,    \* folders under THUMBNAIL_FOLDER: set of [sid, fid]
    thumbFiles,   \* files under THUMBNAIL_FOLDER: set of [sid, fid, name, bytes, mtime]
    renders,      \* cache path -> how often convert_from_path was called for it
    thumbCalls,   \* thumbnail requests received so far
    workers       \* the threads serving requests, each with its position

clockVars == <<now, cleanupRuns>>
regVars == <<sessions, upDirs, upFiles, usedIds, clockVars, ret, lastList, preRestart>>
refVars == <<refSessions, refDirs, refFiles, refRet>>
jobVars == <<job_manager, mergedDirs, mergedFiles, usedJobIds, jobLog>>
thumbVars == <<thumbDirs, thumbFiles, renders, thumbCalls, workers>>

----------------------------------------------------------------------------
(* Bounds of the model *)

\* uploads accepted in one behaviour
MaxUploads == 2

\* merge requests that get as far as drawing a job id in one behaviour
MaxJobs == 2

\* thumbnail requests in one behaviour
MaxThumbCalls == 3

\* thumbnail requests in one behaviour of the concurrent server
MaxConcurrentCalls == 2

----------------------------------------------------------------------------
(* Strings as sequences of characters *)

Str_pdf == <<".", "p", "d", "f">>
Str_PDF == <<".", "P", "D", "F">>
Str_document_pdf == <<"d", "o", "c", "u", "m", "e", "n", "t">> \o Str_pdf

\* str.lower() on the characters that occur
Lower(s) ==
    [i \in 1..Len(s) |->
        CASE s[i] = "P" -> "p"
          [] s[i] = "D" -> "d"
          [] s[i] = "F" -> "f"
          [] OTHER -> s[i]]

StartsWith(s, p) ==
    /\ Len(p) <= Len(s)
    /\ SubSeq(s, 1, Len(p)) = p

EndsWith(s, p) ==
    /\ Len(p) <= Len(s)
    /\ SubSeq(s, Len(s) - Len(p) + 1, Len(s)) = p

\* 1-based index of the first / last occurrence of character c, 0 when none
FirstIndexOf(s, c) ==
    LET I == {i \in 1..Len(s) : s[i] = c}
    IN  IF I = {} THEN 0 ELSE CHOOSE i \in I : \A j \in I : i <= j

LastIndexOf(s, c) ==
    LET I == {i \in 1..Len(s) : s[i] = c}
    IN  IF I = {} THEN 0 ELSE CHOOSE i \in I : \A j \in I : j <= i

\* pathlib's PurePath.suffix: from the last '.', unless it is the first or
\* the last character of the name
Suffix(name) ==
    LET i == LastIndexOf(name, ".")
    IN  IF 1 < i /\ i < Len(name) THEN SubSeq(name, i, Len(name)) ELSE <<>>

\* pathlib's PurePath.stem: the name without its suffix
Stem(name) ==
    LET i == LastIndexOf(name, ".")
    IN  IF 1 < i /\ i < Len(name) THEN SubSeq(name, 1, i - 1) ELSE name

\* stem.split('_')[0]
SplitHead(s) ==
    LET i == FirstIndexOf(s, "_")
    IN  IF i = 0 THEN s ELSE SubSeq(s, 1, i - 1)

\* '_'.join(stem.split('_')[1:])
SplitRest(s) ==
    LET i == FirstIndexOf(s, "_")
    IN  IF i = 0 THEN <<>> ELSE SubSeq(s, i + 1, Len(s))

\* str.strip("._") as werkzeug's secure_filename applies it
RECURSIVE StripLeft(_)
StripLeft(s) ==
    IF s # <<>> /\ Head(s) \in {".", "_"} THEN StripLeft(Tail(s)) ELSE s

RECURSIVE StripRight(_)
StripRight(s) ==
    IF s # <<>> /\ s[Len(s)] \in {".", "_"}
    THEN StripRight(SubSeq(s, 1, Len(s) - 1))
    ELSE s

\* FileValidator.sanitize_filename: secure_filename joins the whitespace
\* separated words with '_' and strips leading and trailing '.' and '_';
\* an empty result becomes "document.pdf"
sanitize_filename(filename) ==
    LET joined == [i \in 1..Len(filename) |->
                      IF filename[i] = " " THEN "_" ELSE filename[i]]
        secured == StripRight(StripLeft(joined))
    IN  IF secured = <<>> THEN Str_document_pdf ELSE secured

\* FileValidator.allowed_file
allowed_file(filename) ==
    LET i == LastIndexOf(filename, ".")
    IN  /\ i > 0
        /\ Lower(SubSeq(filename, i + 1, Len(filename))) = <<"p", "d", "f">>

----------------------------------------------------------------------------
(* Identifiers and inputs *)

Sessions == {"s1"}

\* secrets.token_urlsafe(16) returns strings of one fixed length over
\* A-Z a-z 0-9 '-' '_': an id may hold '_' or '-'
GenFileIds == {<<"a", "_", "b">>, <<"c", "d", "e">>, <<"f", "-", "g">>}

\* SecurityUtils.generate_file_id: an id not returned before
generate_file_id(used) == GenFileIds \ used

\* the file ids a client may put in a URL: the generated ones, and a
\* string that is the part of a generated id before its '_'
FileIds == GenFileIds \cup {<<"a">>}

\* the PDFs a client uploads: client file name, page count, byte size
Docs ==
    { [filename |-> <<"d">> \o Str_pdf,           pages |-> 2, size |-> 20],
      [filename |-> <<"d", " ", "e">> \o Str_pdf, pages |-> 1, size |-> 10],
      [filename |-> <<"d">> \o Str_PDF,           pages |-> 3, size |-> 30] }

----------------------------------------------------------------------------
(* Finite maps *)

EmptyMap == [x \in {} |-> {}]

Put(f, k, v) == [x \in (DOMAIN f) \cup {k} |-> IF x = k THEN v ELSE f[x]]

Drop(f, k) == [x \in (DOMAIN f) \ {k} |-> f[x]]

----------------------------------------------------------------------------
(* The file manager and its folder: fm = [sessions, dirs, files] *)

FM == [sessions |-> sessions, dirs |-> upDirs, files |-> upFiles]

\* the record of the file at path p, as a set (empty when p does not exist)
FileAt(files, p) == {f \in files : f.sid = p.sid /\ f.name = p.name}

PathExists(files, p) == FileAt(files, p) # {}

\* the folder under the upload root that base_folder / session_id names: the
\* path join drops a leading "./", and no caller checks the characters of a
\* session id
session_dir(sid) == IF sid = "./s2" THEN "s2" ELSE sid

\* FileManager.create_session: mkdir(exist_ok) and a fresh in-memory record
create_session(fm, sid, t) ==
    [fm EXCEPT
        !.dirs = IF session_dir(sid) \in DOMAIN fm.dirs THEN fm.dirs
                 ELSE Put(fm.dirs, session_dir(sid), t),
        !.sessions = Put(fm.sessions, sid, [created_at |-> t, files |-> EmptyMap])]

\* FileManager.get_session_folder followed by session_folder.exists()
session_folder_exists(fm, sid) == session_dir(sid) \in DOMAIN fm.dirs

\* add_file as it would be if it called create_session unconditionally
add_file_recreating(fm, sid, fid, path, metadata, t) ==
    LET fm1 == create_session(fm, sid, t)
        info == [path |-> path, metadata |-> metadata, added_at |-> t]
    IN  [fm1 EXCEPT !.sessions[sid].files = Put(@, fid, info)]

\* FileManager.add_file
add_file(fm, sid, fid, path, metadata, t) ==
    LET fm1 == IF sid \notin DOMAIN fm.sessions
               THEN create_session(fm, sid, t)
               ELSE fm
        info == [path |-> path, metadata |-> metadata, added_at |-> t]
    IN  [fm1 EXCEPT !.sessions[sid].files = Put(@, fid, info)]

\* PDFProcessor.get_page_count raises on a file it cannot read
Readable(f) == f.pages > 0

\* the file_info get_file rebuilds from the file f it found for file_id
restored_by_get_file(f, fid) ==
    LET filename == SubSeq(f.name, Len(fid) + 2, Len(f.name))
    IN  [path |-> [sid |-> f.sid, name |-> f.name],
         metadata |-> [filename |-> filename,
                       original_filename |-> filename,
                       page_count |-> f.pages,
                       file_size |-> f.size],
         added_at |-> f.mtime]

\* the files get_file's glob "{file_id}_*" yields that pass its checks
get_file_matches(fm, sid, fid) ==
    {f \in fm.files :
        /\ f.sid = session_dir(sid)
        /\ StartsWith(f.name, fid \o <<"_">>)
        /\ Lower(Suffix(f.name)) = Str_pdf
        /\ Readable(f)}

\* get_file as it would be if it returned the file_info it rebuilds without
\* storing it in self.sessions
get_file_without_store(fm, sid, fid, t) ==
    IF sid \in DOMAIN fm.sessions /\ fid \in DOMAIN fm.sessions[sid].files
    THEN {[fm |-> fm, recs |-> {fm.sessions[sid].files[fid]}]}
    ELSE IF session_folder_exists(fm, sid) /\ get_file_matches(fm, sid, fid) # {}
    THEN {[fm |-> fm, recs |-> {restored_by_get_file(f, fid)}]
          : f \in get_file_matches(fm, sid, fid)}
    ELSE {[fm |-> fm, recs |-> {}]}

\* FileManager.get_file: the possible outcomes [fm, recs]; recs holds the
\* returned file_info, or is empty for None.  The glob yields its matches
\* in directory order, so any match that passes may be the one returned.
get_file(fm, sid, fid, t) ==
    IF sid \in DOMAIN fm.sessions /\ fid \in DOMAIN fm.sessions[sid].files
    THEN {[fm |-> fm, recs |-> {fm.sessions[sid].files[fid]}]}
    ELSE IF session_folder_exists(fm, sid) /\ get_file_matches(fm, sid, fid) # {}
    THEN {LET fm1 == IF sid \notin DOMAIN fm.sessions
                     THEN create_session(fm, sid, t)
                     ELSE fm
              info == restored_by_get_file(f, fid)
          IN  [fm |-> [fm1 EXCEPT !.sessions[sid].files = Put(@, fid, info)],
               recs |-> {info}]
          : f \in get_file_matches(fm, sid, fid)}
    ELSE {[fm |-> fm, recs |-> {}]}

\* the file_id get_session_files derives from a file name
listed_file_id(f) == SplitHead(Stem(f.name))

\* the file_info get_session_files rebuilds from the file f
restored_by_listing(f) ==
    LET filename == SplitRest(Stem(f.name)) \o Suffix(f.name)
    IN  [path |-> [sid |-> f.sid, name |-> f.name],
         metadata |-> [filename |-> filename,
                       original_filename |-> filename,
                       page_count |-> f.pages,
                       file_size |-> f.size],
         added_at |-> f.mtime]

\* listing_matches as it would be if a file that cannot be read ended the
\* scan before anything was restored
listing_matches_aborting(fm, sid) ==
    IF \E f \in fm.files : f.sid = session_dir(sid) /\ EndsWith(f.name, Str_pdf) /\ ~Readable(f)
    THEN {}
    ELSE {f \in fm.files :
             /\ f.sid = session_dir(sid)
             /\ EndsWith(f.name, Str_pdf)
             /\ FirstIndexOf(Stem(f.name), "_") > 0}

\* the files get_session_files' glob "*.pdf" yields that it restores
listing_matches(fm, sid) ==
    {f \in fm.files :
        /\ f.sid = session_dir(sid)
        /\ EndsWith(f.name, Str_pdf)
        /\ FirstIndexOf(Stem(f.name), "_") > 0
        /\ Readable(f)}

\* FileManager.get_session_files: the possible outcomes [fm, files]; files
\* is the returned dict file_id -> file_info.  Two files with the same
\* derived id overwrite each other in glob order: either may be the last.
get_session_files(fm, sid, t) ==
    IF sid \in DOMAIN fm.sessions /\ DOMAIN fm.sessions[sid].files # {}
    THEN {[fm |-> fm, files |-> fm.sessions[sid].files]}
    ELSE IF session_folder_exists(fm, sid)
    THEN LET fm1 == IF sid \notin DOMAIN fm.sessions
                    THEN create_session(fm, sid, t)
                    ELSE fm
             found == listing_matches(fm, sid)
             ids == {listed_file_id(f) : f \in found}
             lasts == {pick \in [ids -> found] :
                          \A i \in ids : listed_file_id(pick[i]) = i}
         IN  {LET files == [i \in ids |-> restored_by_listing(pick[i])]
              IN  [fm |-> [fm1 EXCEPT !.sessions[sid].files = files],
                   files |-> files]
              : pick \in lasts}
    ELSE {[fm |-> fm, files |-> EmptyMap]}

\* file_path.unlink(): the file goes, and its folder's mtime moves
unlink(fm, path, t) ==
    [fm EXCEPT !.files = @ \ FileAt(fm.files, path),
               !.dirs = IF path.sid \in DOMAIN fm.dirs
                        THEN Put(fm.dirs, path.sid, t)
                        ELSE fm.dirs]

\* delete_file as it would be if it dropped the index entry before it
\* unlinked the file
delete_file_entry_first(fm, sid, fid, unlinkOk, t) ==
    IF sid \in DOMAIN fm.sessions /\ fid \in DOMAIN fm.sessions[sid].files
    THEN LET path == fm.sessions[sid].files[fid].path
             fm1 == [fm EXCEPT !.sessions[sid].files = Drop(@, fid)]
         IN  IF PathExists(fm.files, path) /\ ~unlinkOk
             THEN [fm |-> fm1, ok |-> FALSE]
             ELSE [fm |-> IF PathExists(fm.files, path)
                          THEN unlink(fm1, path, t) ELSE fm1,
                   ok |-> TRUE]
    ELSE [fm |-> fm, ok |-> FALSE]

\* FileManager.delete_file; unlinkOk is whether file_path.unlink() succeeds
delete_file(fm, sid, fid, unlinkOk, t) ==
    IF sid \in DOMAIN fm.sessions /\ fid \in DOMAIN fm.sessions[sid].files
    THEN LET path == fm.sessions[sid].files[fid].path
             fm1 == IF PathExists(fm.files, path) THEN unlink(fm, path, t) ELSE fm
         IN  IF PathExists(fm.files, path) /\ ~unlinkOk
             THEN [fm |-> fm, ok |-> FALSE]
             ELSE [fm |-> [fm1 EXCEPT !.sessions[sid].files = Drop(@, fid)],
                   ok |-> TRUE]
    ELSE [fm |-> fm, ok |-> FALSE]

\* file.save(path): the file is created or overwritten
save_file(fm, path, pages, size, t) ==
    [fm EXCEPT
        !.files = (@ \ FileAt(fm.files, path))
                  \cup {[sid |-> path.sid, name |-> path.name,
                         pages |-> pages, size |-> size, mtime |-> t]},
        !.dirs = Put(fm.dirs, path.sid, t)]

\* helpers.ensure_session_folders: mkdir(parents, exist_ok)
ensure_session_folders(fm, sid, t) ==
    IF session_dir(sid) \in DOMAIN fm.dirs
    THEN fm
    ELSE [fm EXCEPT !.dirs = Put(@, session_dir(sid), t)]

\* the metadata upload_files passes to add_file
upload_metadata(doc) ==
    [filename |-> sanitize_filename(doc.filename),
     original_filename |-> doc.filename,
     page_count |-> doc.pages,
     file_size |-> doc.size]

upload_path(sid, fid, doc) ==
    [sid |-> session_dir(sid), name |-> fid \o <<"_">> \o sanitize_filename(doc.filename)]

\* path is where upload_files stores a file under the id fid
StoredAs(fid, path) == \E d \in Docs : path = upload_path(path.sid, fid, d)

\* upload_files for one valid PDF: save under "{file_id}_{safe_filename}",
\* read its page count and size, add_file
upload_files(fm, sid, fid, doc, t) ==
    LET fm1 == ensure_session_folders(fm, sid, t)
        fm2 == save_file(fm1, upload_path(sid, fid, doc), doc.pages, doc.size, t)
    IN  add_file(fm2, sid, fid, upload_path(sid, fid, doc), upload_metadata(doc), t)

----------------------------------------------------------------------------
(* The merge route *)

\* secrets.token_urlsafe(20) returns strings of one fixed length
GenJobIds == {<<"j", "_", "k">>, <<"l", "m", "n">>}

\* SecurityUtils.generate_job_id: an id not returned before
generate_job_id(used) == GenJobIds \ used

\* PageSelection.validate_pages
validate_pages(pages) ==
    /\ pages # <<>>
    /\ \A k \in 1..Len(pages) : pages[k] >= 1

\* MergeRequest.validate_filename
validate_filename(v) == IF EndsWith(v, Str_pdf) THEN v ELSE v \o Str_pdf

\* MergeRequest(**data) raises no ValidationError
MergeRequestValid(req) ==
    /\ req.selections # <<>>
    /\ \A i \in 1..Len(req.selections) : validate_pages(req.selections[i].pages)

\* FileValidator.validate_page_range, looser: it only rejects pages below 1
validate_page_range_no_upper(pages, max_pages) ==
    /\ pages # <<>>
    /\ \A k \in 1..Len(pages) : ~(pages[k] < 1)

\* FileValidator.validate_page_range
validate_page_range(pages, max_pages) ==
    /\ pages # <<>>
    /\ \A k \in 1..Len(pages) : ~(pages[k] < 1 \/ pages[k] > max_pages)

\* the merge route's loop over selections i..Len(sels): the possible
\* outcomes [fm, status, sources]; status is 200 when every selection
\* passed, and sources is then pdf_sources
RECURSIVE merge_sources(_, _, _, _, _)
merge_sources(fm, sid, sels, i, t) ==
    IF i > Len(sels)
    THEN {[fm |-> fm, status |-> 200, sources |-> <<>>]}
    ELSE UNION {
        IF o.recs = {}
        THEN {[fm |-> o.fm, status |-> 404, sources |-> <<>>]}
        ELSE LET file_info == CHOOSE x \in o.recs : TRUE
             IN  IF ~PathExists(o.fm.files, file_info.path)
                 THEN {[fm |-> o.fm, status |-> 404, sources |-> <<>>]}
                 ELSE IF ~validate_page_range(sels[i].pages,
                                              file_info.metadata.page_count)
                 THEN {[fm |-> o.fm, status |-> 400, sources |-> <<>>]}
                 ELSE {[r EXCEPT !.sources =
                            IF r.status = 200
                            THEN <<[path |-> file_info.path,
                                    pages |-> sels[i].pages]>> \o @
                            ELSE @]
                        : r \in merge_sources(o.fm, sid, sels, i + 1, t)}
        : o \in get_file(fm, sid, sels[i].file_id, t)}

\* pages_added as it would be if a page number repeated within one source
\* were added once only
pages_added_once(files, src) ==
    LET reader == CHOOSE f \in FileAt(files, src.path) : TRUE
        asked == [k \in 1..Len(src.pages) |->
                     [name |-> src.path.name, page |-> src.pages[k], k |-> k]]
        First(r) == /\ 1 <= r.page /\ r.page <= reader.pages
                    /\ \A j \in 1..(r.k - 1) : src.pages[j] # r.page
        kept == SelectSeq(asked, First)
    IN  [k \in 1..Len(kept) |-> [name |-> kept[k].name, page |-> kept[k].page]]

\* the pages PDFProcessor.merge_pdfs adds for the source (pdf_path,
\* page_numbers): those within the pages the reader finds in the file
pages_added(files, src) ==
    LET reader == CHOOSE f \in FileAt(files, src.path) : TRUE
        asked == [k \in 1..Len(src.pages) |->
                     [name |-> src.path.name, page |-> src.pages[k]]]
        InRange(r) == 1 <= r.page /\ r.page <= reader.pages
    IN  SelectSeq(asked, InRange)

RECURSIVE writer_pages(_, _, _)
writer_pages(files, pdf_sources, i) ==
    IF i > Len(pdf_sources)
    THEN <<>>
    ELSE pages_added(files, pdf_sources[i]) \o writer_pages(files, pdf_sources, i + 1)

\* PDFProcessor.merge_pdfs: [raised, opened, pages]; opened is whether
\* open(output_path, 'wb') was reached, which creates the output file.
\* fault "read" is PdfReader or a page operation raising, fault "write" is
\* writer.encrypt or writer.write raising inside the with block.
merge_pdfs(files, pdf_sources, fault) ==
    IF \/ fault = "read"
       \/ \E i \in 1..Len(pdf_sources) :
             \A f \in FileAt(files, pdf_sources[i].path) : ~Readable(f)
    THEN [raised |-> TRUE, opened |-> FALSE, pages |-> <<>>]
    ELSE IF fault = "write"
    THEN [raised |-> TRUE, opened |-> TRUE, pages |-> <<>>]
    ELSE [raised |-> FALSE, opened |-> TRUE,
          pages |-> writer_pages(files, pdf_sources, 1)]

\* the jobs and the merged folder: jm = [jobs, dirs, files]
JM == [jobs |-> job_manager, dirs |-> mergedDirs, files |-> mergedFiles]

\* the output path of the merge route
merge_output_path(sid, job_id, output_filename) ==
    [sid |-> sid, name |-> job_id \o <<"_">> \o validate_filename(output_filename)]

\* POST /merge: the possible outcomes [fm, jm, status, drew, sources, out];
\* drew is whether a job id was drawn, out holds the output path once chosen
merge_route(fm, jm, req, job_id, fault, t) ==
    IF ~MergeRequestValid(req)
    THEN {[fm |-> fm, jm |-> jm, status |-> 400, drew |-> FALSE,
           sources |-> <<>>, out |-> {}]}
    ELSE {IF r.status # 200
          THEN [fm |-> r.fm, jm |-> jm, status |-> r.status, drew |-> FALSE,
                sources |-> <<>>, out |-> {}]
          ELSE LET output_path == merge_output_path(req.session_id, job_id,
                                                    req.output_filename)
                   m == merge_pdfs(r.fm.files, r.sources, fault)
                   jm1 == [jm EXCEPT !.dirs = @ \cup {req.session_id}]
                   jm2 == IF m.opened
                          THEN [jm1 EXCEPT !.files =
                                  (@ \ FileAt(jm.files, output_path))
                                  \cup {[sid |-> output_path.sid,
                                         name |-> output_path.name,
                                         pages |-> m.pages,
                                         complete |-> ~m.raised,
                                         encrypted |-> req.password # <<>>,
                                         mtime |-> t]}]
                          ELSE jm1
               IN  IF m.raised
                   THEN [fm |-> r.fm, jm |-> jm2, status |-> 500, drew |-> TRUE,
                         sources |-> r.sources, out |-> {output_path}]
                   ELSE [fm |-> r.fm,
                         jm |-> [jm2 EXCEPT !.jobs = Put(@, job_id,
                                   [session_id |-> req.session_id,
                                    output_path |-> output_path,
                                    output_filename |->
                                        validate_filename(req.output_filename),
                                    status |-> "completed",
                                    total_pages |-> Len(m.pages)])],
                         status |-> 200, drew |-> TRUE,
                         sources |-> r.sources, out |-> {output_path}]
          : r \in merge_sources(fm, req.session_id, req.selections, 1, t)}

----------------------------------------------------------------------------
(* The thumbnail cache *)

\* str(page_number) for the page numbers that occur
Digit(n) ==
    CASE n = 0 -> <<"0">>
      [] n = 1 -> <<"1">>
      [] n = 2 -> <<"2">>
      [] n = 3 -> <<"3">>
      [] n = 4 -> <<"4">>
      [] n = 5 -> <<"5">>
      [] n = 6 -> <<"6">>
      [] n = 7 -> <<"7">>
      [] n = 8 -> <<"8">>
      [] OTHER -> <<"9">>

Str_page == <<"_", "p", "a", "g", "e", "_">>
Str_jpg == <<".", "j", "p", "g">>

\* the thumbnail cache: th = [dirs, files, renders]
TH == [dirs |-> thumbDirs, files |-> thumbFiles, renders |-> renders]

\* the thumbnail file at path p, as a set
ThumbAt(files, p) ==
    {f \in files : f.sid = p.sid /\ f.fid = p.fid /\ f.name = p.name}

ThumbExists(files, p) == ThumbAt(files, p) # {}

\* cache_path in generate_thumbnail_on_demand:
\* cache_folder / "{pdf_path.stem}_page_{page_number}.jpg"
cache_path(pdf_path, page_number, cache_folder) ==
    [sid |-> cache_folder.sid, fid |-> cache_folder.fid,
     name |-> Stem(pdf_path.name) \o Str_page \o Digit(page_number) \o Str_jpg]

\* convert_from_path is called for the thumbnail at out
rasterise(th, out) ==
    [th EXCEPT !.renders =
        Put(@, out, IF out \in DOMAIN th.renders THEN th.renders[out] + 1 ELSE 1)]

\* the bytes of a rendering of page page_number of pdf_path; gen tells one
\* rendering from another
rendered_bytes(th, pdf_path, page_number, out) ==
    [src |-> pdf_path.name, page |-> page_number, gen |-> th.renders[out]]

EmptyBytes == [src |-> <<>>, page |-> 0, gen |-> 0]

\* image.save(output_path): the file is created or overwritten
save_thumbnail(th, out, bytes, t) ==
    [th EXCEPT
        !.dirs = @ \cup {[sid |-> out.sid, fid |-> out.fid]},
        !.files = (@ \ ThumbAt(th.files, out))
                  \cup {[sid |-> out.sid, fid |-> out.fid, name |-> out.name,
                         bytes |-> bytes, mtime |-> t]}]

\* what can happen inside generate_page_thumbnail: "ok"; "fail", the
\* conversion raises or yields no image, or the save fails before the file
\* exists; "empty", the save leaves an empty or partial file behind
RenderOutcomes == {"ok", "fail", "empty"}

\* ThumbnailGenerator.generate_page_thumbnail: [th, ok]
generate_page_thumbnail(th, files, pdf_path, page_number, output_path, outcome, t) ==
    LET th1 == rasterise(th, output_path)
        no_image == \A f \in FileAt(files, pdf_path) :
                        ~Readable(f) \/ page_number > f.pages
    IN  IF outcome = "fail" \/ no_image
        THEN [th |-> th1, ok |-> FALSE]
        ELSE IF outcome = "empty"
        THEN [th |-> save_thumbnail(th1, output_path, EmptyBytes, t), ok |-> FALSE]
        ELSE [th |-> save_thumbnail(th1, output_path,
                        rendered_bytes(th1, pdf_path, page_number, output_path), t),
              ok |-> TRUE]

\* generate_thumbnail_on_demand as it would be without its look at the cache
generate_thumbnail_on_demand_uncached(th, files, pdf_path, page_number, cache_folder, outcome, t) ==
    LET out == cache_path(pdf_path, page_number, cache_folder)
        g == generate_page_thumbnail(th, files, pdf_path, page_number, out,
                                     outcome, t)
    IN  [th |-> g.th, path |-> IF g.ok THEN {out} ELSE {}, rendered |-> 1,
         hit |-> FALSE, render |-> IF g.ok THEN "ok" ELSE "failed"]

\* ThumbnailGenerator.generate_thumbnail_on_demand: [th, path, rendered,
\* hit, render]; path holds the returned path, or is empty for None
generate_thumbnail_on_demand(th, files, pdf_path, page_number, cache_folder, outcome, t) ==
    LET out == cache_path(pdf_path, page_number, cache_folder)
        g == generate_page_thumbnail(th, files, pdf_path, page_number, out,
                                     outcome, t)
    IN  IF ThumbExists(th.files, out)
        THEN [th |-> th, path |-> {out}, rendered |-> 0, hit |-> TRUE,
              render |-> "none"]
        ELSE [th |-> g.th, path |-> IF g.ok THEN {out} ELSE {}, rendered |-> 1,
              hit |-> FALSE, render |-> IF g.ok THEN "ok" ELSE "failed"]

\* get_page_thumbnail's check of the page number, laxer: no upper limit
page_number_status_no_upper(page_number, page_count) ==
    IF page_number < 1 THEN 400 ELSE 200

\* get_page_thumbnail's check of the page number: the status it answers
\* with, 200 standing for passing on
page_number_status(page_number, page_count) ==
    IF page_number < 1 THEN 400
    ELSE IF page_number > page_count THEN 404
    ELSE 200

\* GET /pdf/<sid>/<fid>/thumbnail/<page>: the possible outcomes
\* [fm, th, status, key, path, rendered, hit, render]; key holds the cache
\* path the request came to look at
get_page_thumbnail(fm, th, sid, fid, page_number, outcome, t) ==
    {LET none == [fm |-> o.fm, th |-> th, status |-> 404, key |-> {},
                  path |-> {}, rendered |-> 0, hit |-> FALSE, render |-> "none"]
     IN  IF o.recs = {}
         THEN none
         ELSE LET file_info == CHOOSE x \in o.recs : TRUE
                  pdf_path == file_info.path
                  checked == page_number_status(page_number,
                                                file_info.metadata.page_count)
                  thumbnail_folder == [sid |-> sid, fid |-> fid]
                  th1 == [th EXCEPT !.dirs = @ \cup {thumbnail_folder}]
                  g == generate_thumbnail_on_demand(th1, o.fm.files, pdf_path,
                           page_number, thumbnail_folder, outcome, t)
              IN  IF ~PathExists(o.fm.files, pdf_path)
                  THEN none
                  ELSE IF checked # 200
                  THEN [none EXCEPT !.status = checked]
                  ELSE [fm |-> o.fm, th |-> g.th,
                        status |-> IF g.path = {}
                                      \/ \E q \in g.path : ~ThumbExists(g.th.files, q)
                                   THEN 404 ELSE 200,
                        key |-> {cache_path(pdf_path, page_number, thumbnail_folder)},
                        path |-> g.path, rendered |-> g.rendered, hit |-> g.hit,
                        render |-> g.render]
     : o \in get_file(fm, sid, fid, t)}

----------------------------------------------------------------------------
(* What the calls return *)

\* a dict file_id -> file_info as a set of entries
Entries(files) == {[file_id |-> i, info |-> files[i]] : i \in DOMAIN files}

\* the (fileID, filename, pageCount) triples of a listing
Triples(entries) ==
    {[file_id |-> e.file_id,
      filename |-> e.info.metadata.filename,
      page_count |-> e.info.metadata.page_count] : e \in entries}

\* every file_info GetFile may return in fm, as entries
WouldGet(fm, sid, fid, t) ==
    UNION {{[file_id |-> fid, info |-> i] : i \in o.recs} : o \in get_file(fm, sid, fid, t)}

NoRequest == [session_id |-> "", selections |-> <<>>, output_filename |-> <<>>,
              password |-> <<>>]

NoCall == [op |-> "none", sid |-> "", fid |-> <<>>, ok |-> FALSE, recs |-> {},
           was |-> {}, before |-> {}, fault |-> FALSE, created |-> FALSE,
           status |-> 0, req |-> NoRequest, job_id |-> <<>>,
           sources |-> <<>>, out |-> {},
           page |-> 0, key |-> {}, rendered |-> 0, hit |-> FALSE,
           render |-> "none",
           max_age |-> 0, raised |-> FALSE, cleaned |-> 0, evicted |-> {},
           at |-> 0, error |-> "", job |-> {}, sent |-> {},
           pages |-> <<>>, force |-> FALSE, outcomes |-> <<>>, results |-> <<>>,
           page_count |-> 0, total_pages |-> 0]

----------------------------------------------------------------------------
(* The registry's calls as actions *)

SetFM(fm) ==
    /\ sessions' = fm.sessions
    /\ upDirs' = fm.dirs
    /\ upFiles' = fm.files

\* POST /upload with one valid PDF
Upload(sid, doc) ==
    /\ Cardinality(usedIds) < MaxUploads
    /\ allowed_file(doc.filename)
    /\ \E fid \in generate_file_id(usedIds) :
          /\ SetFM(upload_files(FM, sid, fid, doc, now))
          /\ usedIds' = usedIds \cup {fid}
          /\ ret' = [NoCall EXCEPT
                        !.op = "upload", !.sid = sid, !.fid = fid, !.ok = TRUE,
                        !.recs = {[file_id |-> fid,
                                   info |-> [path |-> upload_path(sid, fid, doc),
                                             metadata |-> upload_metadata(doc),
                                             added_at |-> now]]},
                        !.created = sid \notin DOMAIN sessions]
    /\ lastList' = {}
    /\ preRestart' = {}
    /\ UNCHANGED <<clockVars, refVars, jobVars, thumbVars>>

\* self.sessions holds a record for file fid of session sid
Indexed(sess, sid, fid) == sid \in DOMAIN sess /\ fid \in DOMAIN sess[sid].files

\* GetFile(sid, fid), as every route that looks a file up calls it
GetFile(sid, fid) ==
    /\ \E o \in get_file(FM, sid, fid, now) :
          /\ SetFM(o.fm)
          /\ ret' = [NoCall EXCEPT
                        !.op = "get", !.sid = sid, !.fid = fid, !.ok = o.recs # {},
                        !.hit = Indexed(sessions, sid, fid),
                        !.recs = {[file_id |-> fid, info |-> i] : i \in o.recs}]
    /\ lastList' = {}
    /\ preRestart' = {}
    /\ UNCHANGED <<usedIds, clockVars, refVars, jobVars, thumbVars>>

\* GET /session/<sid>/files
ListFiles(sid) ==
    /\ \E o \in get_session_files(FM, sid, now) :
          /\ SetFM(o.fm)
          /\ ret' = [NoCall EXCEPT
                        !.op = "list", !.sid = sid, !.ok = TRUE,
                        !.hit = (sid \in DOMAIN sessions /\ DOMAIN sessions[sid].files # {}),
                        !.recs = Entries(o.files),
                        !.before = {l.triples : l \in {x \in preRestart : x.sid = sid}}]
          /\ lastList' = {[sid |-> sid, triples |-> Triples(Entries(o.files))]}
    /\ preRestart' = {}
    /\ UNCHANGED <<usedIds, clockVars, refVars, jobVars, thumbVars>>

\* DeleteFile as it would be if a deleted file took the merge outputs and
\* the jobs of its session with it
DeleteFile_with_outputs(sid, fid, unlinkOk) ==
    /\ ~unlinkOk => /\ sid \in DOMAIN sessions
                    /\ fid \in DOMAIN sessions[sid].files
                    /\ PathExists(upFiles, sessions[sid].files[fid].path)
    /\ LET o == delete_file(FM, sid, fid, unlinkOk, now)
       IN  /\ SetFM(o.fm)
           /\ ret' = [NoCall EXCEPT
                         !.op = "delete", !.sid = sid, !.fid = fid, !.ok = o.ok,
                         !.was = WouldGet(FM, sid, fid, now),
                         !.fault = ~unlinkOk]
           /\ mergedFiles' = IF o.ok THEN {f \in mergedFiles : f.sid # sid}
                             ELSE mergedFiles
           /\ job_manager' =
                 IF o.ok
                 THEN [j \in {x \in DOMAIN job_manager :
                                 job_manager[x].session_id # sid} |-> job_manager[j]]
                 ELSE job_manager
    /\ lastList' = {}
    /\ preRestart' = {}
    /\ UNCHANGED <<usedIds, clockVars, refVars, mergedDirs, usedJobIds, jobLog,
                   thumbVars>>

\* DELETE /session/<sid>/file/<fid>
DeleteFile(sid, fid, unlinkOk) ==
    /\ ~unlinkOk => /\ sid \in DOMAIN sessions
                    /\ fid \in DOMAIN sessions[sid].files
                    /\ PathExists(upFiles, sessions[sid].files[fid].path)
    /\ LET o == delete_file(FM, sid, fid, unlinkOk, now)
       IN  /\ SetFM(o.fm)
           /\ ret' = [NoCall EXCEPT
                         !.op = "delete", !.sid = sid, !.fid = fid, !.ok = o.ok,
                         !.was = WouldGet(FM, sid, fid, now),
                         !.fault = ~unlinkOk]
    /\ lastList' = {}
    /\ preRestart' = {}
    /\ UNCHANGED <<usedIds, clockVars, refVars, jobVars, thumbVars>>

\* the process restarts: the in-memory registry is empty, the disk is kept
Restart ==
    /\ sessions # EmptyMap \/ job_manager # EmptyMap
    /\ sessions' = EmptyMap
    /\ job_manager' = EmptyMap
    /\ ret' = [NoCall EXCEPT !.op = "restart"]
    /\ preRestart' = lastList
    /\ lastList' = {}
    /\ UNCHANGED <<upDirs, upFiles, usedIds, clockVars, refVars,
                   mergedDirs, mergedFiles, usedJobIds, jobLog, thumbVars>>

SetJM(jm) ==
    /\ job_manager' = jm.jobs
    /\ mergedDirs' = jm.dirs
    /\ mergedFiles' = jm.files

\* POST /merge with the body req; fault is what goes wrong inside
\* PDFProcessor.merge_pdfs, which can only go wrong if it is reached
Merge(req, fault) ==
    /\ Cardinality(usedJobIds) < MaxJobs
    /\ fault # "none" =>
          /\ MergeRequestValid(req)
          /\ \E r \in merge_sources(FM, req.session_id, req.selections, 1, now) :
                r.status = 200
    /\ \E job_id \in generate_job_id(usedJobIds) :
          \E o \in merge_route(FM, JM, req, job_id, fault, now) :
             /\ SetFM(o.fm)
             /\ SetJM(o.jm)
             /\ usedJobIds' = IF o.drew THEN usedJobIds \cup {job_id} ELSE usedJobIds
             /\ jobLog' = IF o.status = 200
                           THEN Put(jobLog, job_id, o.jm.jobs[job_id])
                           ELSE jobLog
             /\ ret' = [NoCall EXCEPT
                           !.op = "merge", !.sid = req.session_id,
                           !.ok = o.status = 200, !.status = o.status,
                           !.req = req,
                           !.job_id = IF o.drew THEN job_id ELSE <<>>,
                           !.sources = o.sources, !.out = o.out]
    /\ lastList' = {}
    /\ preRestart' = {}
    /\ UNCHANGED <<usedIds, clockVars, refVars, thumbVars>>

\* the reference process starts like the real one
InitRef ==
    /\ refSessions = EmptyMap
    /\ refDirs = EmptyMap
    /\ refFiles = {}
    /\ refRet = NoCall

\* FileManager.__init__ over an empty upload folder
InitRegistry ==
    /\ sessions = EmptyMap
    /\ upDirs = EmptyMap
    /\ upFiles = {}
    /\ usedIds = {}
    /\ now = 0
    /\ cleanupRuns = 0
    /\ ret = NoCall
    /\ lastList = {}
    /\ preRestart = {}

SetTH(th) ==
    /\ thumbDirs' = th.dirs
    /\ thumbFiles' = th.files
    /\ renders' = th.renders

\* GET /pdf/<sid>/<fid>/thumbnail/<page_number>, served from start to end;
\* outcome is what happens inside generate_page_thumbnail if it is reached
Thumbnail(sid, fid, page_number, outcome) ==
    /\ thumbCalls < MaxThumbCalls
    /\ \E o \in get_page_thumbnail(FM, TH, sid, fid, page_number, outcome, now) :
          /\ SetFM(o.fm)
          /\ SetTH(o.th)
          /\ ret' = [NoCall EXCEPT
                        !.op = "thumb", !.sid = sid, !.fid = fid,
                        !.page = page_number, !.ok = o.status = 200,
                        !.status = o.status, !.key = o.key, !.out = o.path,
                        !.rendered = o.rendered, !.hit = o.hit,
                        !.render = o.render]
    /\ thumbCalls' = thumbCalls + 1
    /\ lastList' = {}
    /\ preRestart' = {}
    /\ UNCHANGED <<usedIds, clockVars, refVars, jobVars, workers>>

Workers == {"w1", "w2"}

Idle == [pc |-> "idle", kind |-> "none", force |-> FALSE, sid |-> "", fid |-> <<>>,
         pdf_path |-> {}, page |-> 0, key |-> {}, path |-> {}, gen |-> 0,
         converted |-> FALSE, info |-> {}, status |-> ""]

\* an empty thumbnail folder, and no request being served
InitThumbs ==
    /\ thumbDirs = {}
    /\ thumbFiles = {}
    /\ renders = EmptyMap
    /\ thumbCalls = 0
    /\ workers = [w \in Workers |-> Idle]

\* no job yet, and an empty merged folder
InitJobs ==
    /\ job_manager = EmptyMap
    /\ mergedDirs = {}
    /\ mergedFiles = {}
    /\ usedJobIds = {}
    /\ jobLog = EmptyMap

Init ==
    /\ InitRegistry
    /\ InitRef
    /\ InitJobs
    /\ InitThumbs

Next ==
    \/ \E sid \in Sessions, doc \in Docs : Upload(sid, doc)
    \/ \E sid \in Sessions, fid \in FileIds : GetFile(sid, fid)
    \/ \E sid \in Sessions : ListFiles(sid)
    \/ \E sid \in Sessions, fid \in FileIds, unlinkOk \in BOOLEAN :
          DeleteFile(sid, fid, unlinkOk)
    \/ Restart

vars == <<regVars, refVars, jobVars, thumbVars>>

Spec == Init /\ [][Next]_vars

----------------------------------------------------------------------------
(* Restart transparency: the same calls are given to the process, which may
   restart between calls, and to a reference process that never restarts *)

RefFM == [sessions |-> refSessions, dirs |-> refDirs, files |-> refFiles]

SetRefFM(fm) ==
    /\ refSessions' = fm.sessions
    /\ refDirs' = fm.dirs
    /\ refFiles' = fm.files

RT_Upload(sid, doc) ==
    /\ Cardinality(usedIds) < MaxUploads
    /\ allowed_file(doc.filename)
    /\ \E fid \in generate_file_id(usedIds) :
          LET r == [NoCall EXCEPT
                      !.op = "upload", !.sid = sid, !.fid = fid, !.ok = TRUE,
                      !.recs = {[file_id |-> fid,
                                 info |-> [path |-> upload_path(sid, fid, doc),
                                           metadata |-> upload_metadata(doc),
                                           added_at |-> now]]}]
          IN  /\ SetFM(upload_files(FM, sid, fid, doc, now))
              /\ SetRefFM(upload_files(RefFM, sid, fid, doc, now))
              /\ usedIds' = usedIds \cup {fid}
              /\ ret' = r
              /\ refRet' = r
    /\ UNCHANGED <<clockVars, lastList, preRestart, jobVars, thumbVars>>

RT_GetFile(sid, fid) ==
    /\ \E o \in get_file(FM, sid, fid, now), r \in get_file(RefFM, sid, fid, now) :
          /\ SetFM(o.fm)
          /\ SetRefFM(r.fm)
          /\ ret' = [NoCall EXCEPT
                        !.op = "get", !.sid = sid, !.fid = fid, !.ok = o.recs # {},
                        !.recs = {[file_id |-> fid, info |-> i] : i \in o.recs}]
          /\ refRet' = [NoCall EXCEPT
                        !.op = "get", !.sid = sid, !.fid = fid, !.ok = r.recs # {},
                        !.recs = {[file_id |-> fid, info |-> i] : i \in r.recs}]
    /\ UNCHANGED <<usedIds, clockVars, lastList, preRestart, jobVars, thumbVars>>

RT_ListFiles(sid) ==
    /\ \E o \in get_session_files(FM, sid, now),
          r \in get_session_files(RefFM, sid, now) :
          /\ SetFM(o.fm)
          /\ SetRefFM(r.fm)
          /\ ret' = [NoCall EXCEPT !.op = "list", !.sid = sid, !.ok = TRUE,
                                   !.recs = Entries(o.files)]
          /\ refRet' = [NoCall EXCEPT !.op = "list", !.sid = sid, !.ok = TRUE,
                                      !.recs = Entries(r.files)]
    /\ UNCHANGED <<usedIds, clockVars, lastList, preRestart, jobVars, thumbVars>>

RT_DeleteFile(sid, fid) ==
    /\ LET o == delete_file(FM, sid, fid, TRUE, now)
           r == delete_file(RefFM, sid, fid, TRUE, now)
       IN  /\ SetFM(o.fm)
           /\ SetRefFM(r.fm)
           /\ ret' = [NoCall EXCEPT !.op = "delete", !.sid = sid, !.fid = fid,
                                    !.ok = o.ok]
           /\ refRet' = [NoCall EXCEPT !.op = "delete", !.sid = sid, !.fid = fid,
                                       !.ok = r.ok]
    /\ UNCHANGED <<usedIds, clockVars, lastList, preRestart, jobVars, thumbVars>>

\* only the process restarts
RT_Restart ==
    /\ sessions # EmptyMap
    /\ sessions' = EmptyMap
    /\ UNCHANGED <<upDirs, upFiles, usedIds, clockVars, ret, lastList, preRestart, refVars, jobVars, thumbVars>>

NextRT ==
    \/ \E sid \in Sessions, doc \in Docs : RT_Upload(sid, doc)
    \/ \E sid \in Sessions, fid \in FileIds : RT_GetFile(sid, fid)
    \/ \E sid \in Sessions : RT_ListFiles(sid)
    \/ \E sid \in Sessions, fid \in FileIds : RT_DeleteFile(sid, fid)
    \/ RT_Restart

SpecRT == Init /\ [][NextRT]_vars

----------------------------------------------------------------------------
(* Merging: a session that holds two uploaded files receives merge requests *)

DocA == [filename |-> <<"d">> \o Str_pdf, pages |-> 2, size |-> 20]
DocB == [filename |-> <<"d", " ", "e">> \o Str_pdf, pages |-> 1, size |-> 10]

\* the registry after DocA was uploaded as "a_b" and DocB as "cde" into "s1"
UploadedFM ==
    LET empty == [sessions |-> EmptyMap, dirs |-> EmptyMap, files |-> {}]
        fm1 == upload_files(empty, "s1", <<"a", "_", "b">>, DocA, 0)
    IN  upload_files(fm1, "s1", <<"c", "d", "e">>, DocB, 0)

\* the page selections a client sends
Selections ==
    { [file_id |-> <<"a", "_", "b">>, pages |-> <<2, 1, 1>>],
      [file_id |-> <<"a", "_", "b">>, pages |-> <<3>>],
      [file_id |-> <<"c", "d", "e">>, pages |-> <<1>>],
      [file_id |-> <<"c", "d", "e">>, pages |-> <<1, 2>>],
      [file_id |-> <<"c", "d", "e">>, pages |-> <<0>>],
      [file_id |-> <<"c", "d", "e">>, pages |-> <<>>],
      [file_id |-> <<"f", "-", "g">>, pages |-> <<1>>] }

\* the merge requests a client sends: one or two selections, or one that
\* comes back to a file after another file, without a password, and one
\* that asks for the output to be encrypted with a password
MergeRequests ==
    {[session_id |-> "s1", selections |-> sels, output_filename |-> <<"m">>,
      password |-> <<>>]
        : sels \in {<<x>> : x \in Selections}
                   \cup {<<x, y>> : x \in Selections, y \in Selections}
                   \cup {<<[file_id |-> <<"a", "_", "b">>, pages |-> <<2, 1, 1>>],
                           [file_id |-> <<"c", "d", "e">>, pages |-> <<1>>],
                           [file_id |-> <<"a", "_", "b">>, pages |-> <<2, 1, 1>>]>>}}
    \cup {[session_id |-> "s1",
            selections |-> <<[file_id |-> <<"c", "d", "e">>, pages |-> <<1>>]>>,
            output_filename |-> <<"m">>, password |-> <<"p">>]}

MergeFaults == {"none", "read", "write"}

\* the merge requests of a client that selects existing pages: from one file
\* or from both, and with or without a password
JobRequests ==
    {req \in MergeRequests :
        \/ req.password # <<>>
        \/ req.selections \in
              {<<[file_id |-> <<"a", "_", "b">>, pages |-> <<2, 1, 1>>]>>,
               <<[file_id |-> <<"a", "_", "b">>, pages |-> <<2, 1, 1>>],
                 [file_id |-> <<"c", "d", "e">>, pages |-> <<1>>]>>}}

InitMerge ==
    /\ sessions = UploadedFM.sessions
    /\ upDirs = UploadedFM.dirs
    /\ upFiles = UploadedFM.files
    /\ usedIds = {<<"a", "_", "b">>, <<"c", "d", "e">>}
    /\ now = 0
    /\ cleanupRuns = 0
    /\ ret = NoCall
    /\ lastList = {}
    /\ preRestart = {}
    /\ InitRef
    /\ InitJobs
    /\ InitThumbs

NextMerge ==
    \/ \E req \in MergeRequests, fault \in MergeFaults : Merge(req, fault)
    \/ Restart

SpecMerge == InitMerge /\ [][NextMerge]_vars

----------------------------------------------------------------------------
(* Thumbnails: the session that holds the two uploaded files is asked for
   page thumbnails, one request at a time *)

ThumbPages == 0..3

InitThumb ==
    /\ sessions = UploadedFM.sessions
    /\ upDirs = UploadedFM.dirs
    /\ upFiles = UploadedFM.files
    /\ usedIds = {<<"a", "_", "b">>, <<"c", "d", "e">>}
    /\ now = 0
    /\ cleanupRuns = 0
    /\ ret = NoCall
    /\ lastList = {}
    /\ preRestart = {}
    /\ InitRef
    /\ InitJobs
    /\ InitThumbs

NextThumb ==
    \/ \E sid \in Sessions, fid \in FileIds, page_number \in ThumbPages,
          outcome \in RenderOutcomes :
          Thumbnail(sid, fid, page_number, outcome)
    \/ Restart

SpecThumb == InitThumb /\ [][NextThumb]_vars

----------------------------------------------------------------------------
(* Thumbnails under concurrency: every request is served by a thread of its
   own, and a batch request runs one pool thread per page; the threads take
   the steps of generate_thumbnail_on_demand one file system call at a time *)

BatchPages == {<<>>, <<1>>, <<1, 1>>, <<1, 2>>, <<2, 3>>}

\* the thread w starts on page_number of the file at pdf_path
Started(kind, force, sid, fid, pdf_path, page_number) ==
    [Idle EXCEPT
        !.pc = IF force THEN "unlink" ELSE "check",
        !.kind = kind, !.force = force, !.sid = sid, !.fid = fid,
        !.pdf_path = {pdf_path}, !.page = page_number,
        !.key = {cache_path(pdf_path, page_number, [sid |-> sid, fid |-> fid])}]

\* get_page_thumbnail up to its call of generate_thumbnail_on_demand
W_Request(w, sid, fid, page_number) ==
    /\ thumbCalls < MaxConcurrentCalls
    /\ workers[w].pc = "idle"
    /\ \E o \in get_file(FM, sid, fid, now) :
          LET file_info == CHOOSE x \in o.recs : TRUE
              checked == IF o.recs = {} \/ ~PathExists(o.fm.files, file_info.path)
                         THEN 404
                         ELSE page_number_status(page_number,
                                                 file_info.metadata.page_count)
          IN  /\ SetFM(o.fm)
              /\ IF checked # 200
                 THEN /\ ret' = [NoCall EXCEPT
                                    !.op = "thumb", !.sid = sid, !.fid = fid,
                                    !.page = page_number, !.status = checked]
                      /\ UNCHANGED <<thumbDirs, workers>>
                 ELSE /\ thumbDirs' = thumbDirs \cup {[sid |-> sid, fid |-> fid]}
                      /\ workers' = [workers EXCEPT ![w] =
                            Started("single", FALSE, sid, fid, file_info.path,
                                    page_number)]
                      /\ UNCHANGED ret
    /\ thumbCalls' = thumbCalls + 1
    /\ UNCHANGED <<usedIds, clockVars, lastList, preRestart, refVars, jobVars,
                   thumbFiles, renders>>

\* generate_batch_thumbnails up to executor.map, which starts one pool
\* thread per page
BatchRequest(sid, fid, pages, force) ==
    /\ thumbCalls < MaxConcurrentCalls
    /\ \A w \in Workers : workers[w].kind # "batch"
    /\ \E o \in get_file(FM, sid, fid, now) :
          LET file_info == CHOOSE x \in o.recs : TRUE
              checked == IF o.recs = {} THEN 404
                         ELSE IF pages = <<>> THEN 400
                         ELSE IF \E k \in 1..Len(pages) :
                                    \/ pages[k] < 1
                                    \/ pages[k] > file_info.metadata.page_count
                         THEN 400
                         ELSE 200
              idle == {w \in Workers : workers[w].pc = "idle"}
          IN  /\ SetFM(o.fm)
              /\ IF checked # 200
                 THEN /\ ret' = [NoCall EXCEPT
                                    !.op = "batch", !.sid = sid, !.fid = fid,
                                    !.status = checked]
                      /\ UNCHANGED <<thumbDirs, workers>>
                 ELSE /\ thumbDirs' = thumbDirs \cup {[sid |-> sid, fid |-> fid]}
                      /\ \E pool \in [1..Len(pages) -> idle] :
                            /\ \A i, j \in 1..Len(pages) : pool[i] = pool[j] => i = j
                            /\ workers' =
                                  [w \in Workers |->
                                      IF \E i \in 1..Len(pages) : pool[i] = w
                                      THEN Started("batch", force, sid, fid,
                                              file_info.path,
                                              pages[CHOOSE i \in 1..Len(pages) :
                                                        pool[i] = w])
                                      ELSE workers[w]]
                      /\ UNCHANGED ret
    /\ thumbCalls' = thumbCalls + 1
    /\ UNCHANGED <<usedIds, clockVars, lastList, preRestart, refVars, jobVars,
                   thumbFiles, renders>>

\* generate_single with force_regenerate: cache_path.unlink() if it exists
W_Unlink(w) ==
    /\ workers[w].pc = "unlink"
    /\ thumbFiles' = thumbFiles \ UNION {ThumbAt(thumbFiles, q) : q \in workers[w].key}
    /\ workers' = [workers EXCEPT ![w].pc = "check"]
    /\ UNCHANGED <<regVars, refVars, jobVars, thumbDirs, renders, thumbCalls>>

\* generate_thumbnail_on_demand: cache_path.exists()
W_Check(w) ==
    /\ workers[w].pc = "check"
    /\ workers' = [workers EXCEPT ![w] =
          IF \A q \in workers[w].key : ThumbExists(thumbFiles, q)
          THEN [@ EXCEPT !.pc = "return", !.path = workers[w].key]
          ELSE [@ EXCEPT !.pc = "convert"]]
    /\ UNCHANGED <<regVars, refVars, jobVars, thumbDirs, thumbFiles, renders,
                   thumbCalls>>

\* generate_page_thumbnail: convert_from_path
W_Convert(w) ==
    /\ workers[w].pc = "convert"
    /\ \E q \in workers[w].key, src \in workers[w].pdf_path :
          LET th1 == rasterise(TH, q)
              no_image == \A f \in FileAt(upFiles, src) :
                              ~Readable(f) \/ workers[w].page > f.pages
          IN  /\ renders' = th1.renders
              /\ workers' = [workers EXCEPT ![w] =
                    [@ EXCEPT !.pc = IF no_image THEN "return" ELSE "save",
                              !.gen = th1.renders[q],
                              !.converted = TRUE]]
    /\ UNCHANGED <<regVars, refVars, jobVars, thumbDirs, thumbFiles, thumbCalls>>

\* generate_page_thumbnail: image.save opens output_path itself for writing,
\* so the file exists, empty, before any byte of the image is in it
W_Open(w) ==
    /\ workers[w].pc = "save"
    /\ \E q \in workers[w].key :
          SetTH(save_thumbnail(TH, q, EmptyBytes, now))
    /\ workers' = [workers EXCEPT ![w].pc = "write"]
    /\ UNCHANGED <<regVars, refVars, jobVars, thumbCalls>>

\* generate_page_thumbnail: image.save has written the image and closed the
\* file, and the look at the saved file
W_Save(w) ==
    /\ workers[w].pc = "write"
    /\ \E q \in workers[w].key, src \in workers[w].pdf_path :
          SetTH(save_thumbnail(TH, q,
                   [src |-> src.name, page |-> workers[w].page,
                    gen |-> workers[w].gen], now))
    /\ workers' = [workers EXCEPT ![w] =
          [@ EXCEPT !.pc = "return", !.path = workers[w].key]]
    /\ UNCHANGED <<regVars, refVars, jobVars, thumbCalls>>

\* get_page_thumbnail after generate_thumbnail_on_demand returned: the
\* response; a pool thread of a batch hands its result to executor.map, with
\* status 'success' if thumbnail_path is set and exists at that moment
W_Return(w) ==
    /\ workers[w].pc = "return"
    /\ IF workers[w].kind = "single"
       THEN /\ ret' = [NoCall EXCEPT
                          !.op = "thumb", !.sid = workers[w].sid,
                          !.fid = workers[w].fid, !.page = workers[w].page,
                          !.key = workers[w].key, !.out = workers[w].path,
                          !.status = IF \/ workers[w].path = {}
                                        \/ \E q \in workers[w].path :
                                              ~ThumbExists(thumbFiles, q)
                                     THEN 404 ELSE 200,
                          !.ok = /\ workers[w].path # {}
                                 /\ \A q \in workers[w].path :
                                       ThumbExists(thumbFiles, q),
                          !.rendered = IF workers[w].converted THEN 1 ELSE 0,
                          !.hit = ~workers[w].converted]
            /\ workers' = [workers EXCEPT ![w] = Idle]
       ELSE /\ workers' = [workers EXCEPT ![w] =
                  [@ EXCEPT !.pc = "joined",
                            !.status = IF /\ workers[w].path # {}
                                          /\ \A q \in workers[w].path :
                                                ThumbExists(thumbFiles, q)
                                       THEN "success" ELSE "failed"]]
            /\ UNCHANGED ret
    /\ UNCHANGED <<sessions, upDirs, upFiles, usedIds, clockVars, lastList, preRestart,
                   refVars, jobVars, thumbDirs, thumbFiles, renders, thumbCalls>>

\* generate_batch_thumbnails once every pool thread has returned
BatchRespond ==
    LET pool == {w \in Workers : workers[w].kind = "batch"}
    IN  /\ pool # {}
        /\ \A w \in pool : workers[w].pc = "joined"
        /\ ret' = [NoCall EXCEPT
                      !.op = "batch",
                      !.sid = CHOOSE x \in {workers[w].sid : w \in pool} : TRUE,
                      !.fid = CHOOSE x \in {workers[w].fid : w \in pool} : TRUE,
                      !.status = 200, !.ok = TRUE,
                      !.out = UNION {workers[w].path : w \in pool},
                      !.rendered = Cardinality({w \in pool : workers[w].converted})]
        /\ workers' = [w \in Workers |-> IF w \in pool THEN Idle ELSE workers[w]]
        /\ UNCHANGED <<sessions, upDirs, upFiles, usedIds, clockVars, lastList,
                       preRestart, refVars, jobVars, thumbDirs, thumbFiles,
                       renders, thumbCalls>>

NextThumbConc ==
    \/ \E w \in Workers, sid \in Sessions, fid \in GenFileIds,
          page_number \in ThumbPages : W_Request(w, sid, fid, page_number)
    \/ \E sid \in Sessions, fid \in GenFileIds, pages \in BatchPages,
          force \in BOOLEAN : BatchRequest(sid, fid, pages, force)
    \/ \E w \in Workers : W_Unlink(w)
    \/ \E w \in Workers : W_Check(w)
    \/ \E w \in Workers : W_Convert(w)
    \/ \E w \in Workers : W_Open(w)
    \/ \E w \in Workers : W_Save(w)
    \/ \E w \in Workers : W_Return(w)
    \/ BatchRespond

SpecThumbConc == InitThumb /\ [][NextThumbConc]_vars

----------------------------------------------------------------------------
(* The end of sessions: DELETE /api/session/<sid> and the cleanup of old
   sessions.  Two clients upload and ask for thumbnails, time passes, and
   sessions are cleaned up *)

\* the latest hour the clock reaches
MaxClock == 2

SweepSessions == {"s1", "s2"}

\* the max_age_hours cleanup_old_sessions is called with
MaxAges == {0, 1}

\* shutil.rmtree(session_folder): the folder goes with all that is in it
rmtree(fm, sid) ==
    [fm EXCEPT !.dirs = Drop(@, session_dir(sid)),
               !.files = {f \in @ : f.sid # session_dir(sid)}]

\* cleanup_session as it would be if it removed the folder and kept the
\* in-memory record
cleanup_session_folder_only(fm, sid, rmtreeOk) ==
    IF session_folder_exists(fm, sid) /\ ~rmtreeOk
    THEN [fm |-> fm, ok |-> FALSE]
    ELSE [fm |-> IF session_folder_exists(fm, sid) THEN rmtree(fm, sid) ELSE fm,
          ok |-> TRUE]

\* FileManager.cleanup_session: [fm, ok]; rmtreeOk is whether shutil.rmtree
\* succeeds, and a failing rmtree is taken to have removed nothing
cleanup_session(fm, sid, rmtreeOk) ==
    IF session_folder_exists(fm, sid) /\ ~rmtreeOk
    THEN [fm |-> fm, ok |-> FALSE]
    ELSE LET fm1 == IF session_folder_exists(fm, sid) THEN rmtree(fm, sid) ELSE fm
         IN  [fm |-> [fm1 EXCEPT !.sessions =
                         IF sid \in DOMAIN @ THEN Drop(@, sid) ELSE @],
              ok |-> TRUE]

\* the orders self.sessions.items() can yield the sessions in: the order in
\* which create_session inserted them, which is the order of created_at
dict_orders(sess) ==
    {order \in [1..Cardinality(DOMAIN sess) -> DOMAIN sess] :
        /\ \A i, j \in DOMAIN order : order[i] = order[j] => i = j
        /\ \A i, j \in DOMAIN order :
              i < j => sess[order[i]].created_at <= sess[order[j]].created_at}

\* the second loop as it would be if it removed every folder, whatever its age
cleanup_orphaned_folders_any_age(fm, max_age_hours, rmtreeOk, t) ==
    IF rmtreeOk
    THEN [fm |-> [fm EXCEPT !.dirs = EmptyMap, !.files = {}],
          removed |-> DOMAIN fm.dirs]
    ELSE [fm |-> fm, removed |-> {}]

\* the second loop of cleanup_old_sessions, over the folders of base_folder:
\* every folder older than max_age_hours is removed; the first rmtree that
\* fails ends the loop
cleanup_orphaned_folders(fm, max_age_hours, rmtreeOk, t) ==
    LET old == {d \in DOMAIN fm.dirs : t - fm.dirs[d] > max_age_hours}
    IN  IF rmtreeOk
        THEN [fm |-> [fm EXCEPT
                        !.dirs = [d \in (DOMAIN fm.dirs) \ old |-> fm.dirs[d]],
                        !.files = {f \in @ : f.sid \notin old}],
              removed |-> old]
        ELSE [fm |-> fm, removed |-> {}]

\* FileManager.cleanup_old_sessions: the possible outcomes [fm, raised,
\* cleaned, evicted].  The first loop iterates self.sessions.items() and
\* calls cleanup_session, which deletes from self.sessions: the iterator
\* raises RuntimeError (dictionary changed size during iteration) at its
\* next step, also when the deleted entry was the last one, and nothing in
\* cleanup_old_sessions catches it
cleanup_old_sessions(fm, max_age_hours, rmtreeOk, t) ==
    {LET cutoff_time == t - max_age_hours
         deleting == {i \in DOMAIN order :
                        /\ fm.sessions[order[i]].created_at < cutoff_time
                        /\ cleanup_session(fm, order[i], rmtreeOk).ok}
         first == CHOOSE i \in deleting : \A j \in deleting : i <= j
         orphaned == cleanup_orphaned_folders(fm, max_age_hours, rmtreeOk, t)
     IN  IF deleting # {}
         THEN [fm |-> cleanup_session(fm, order[first], rmtreeOk).fm,
               raised |-> TRUE, cleaned |-> 1, evicted |-> {order[first]}]
         ELSE [fm |-> orphaned.fm, raised |-> FALSE,
               cleaned |-> Cardinality(orphaned.removed),
               evicted |-> orphaned.removed]
     : order \in dict_orders(fm.sessions)}

\* an hour passes
Tick ==
    /\ now < MaxClock
    /\ now' = now + 1
    /\ UNCHANGED <<sessions, upDirs, upFiles, usedIds, cleanupRuns, ret, lastList,
                   preRestart, refVars, jobVars, thumbVars>>

\* DELETE /api/session/<sid>; was holds the session the call before
\* destroyed, if it was a DeleteSession that succeeded
DeleteSession(sid, rmtreeOk) ==
    /\ ~rmtreeOk => session_folder_exists(FM, sid)
    /\ LET o == cleanup_session(FM, sid, rmtreeOk)
       IN  /\ SetFM(o.fm)
           /\ ret' = [NoCall EXCEPT
                         !.op = "delete_session", !.sid = sid, !.ok = o.ok,
                         !.status = IF o.ok THEN 200 ELSE 404,
                         !.was = IF ret.op = "delete_session" /\ ret.ok
                                 THEN {ret.sid} ELSE {},
                         !.fault = ~rmtreeOk, !.at = now]
    /\ lastList' = {}
    /\ preRestart' = {}
    /\ UNCHANGED <<usedIds, clockVars, refVars, jobVars, thumbVars>>

\* SweepExpired: file_manager.cleanup_old_sessions(max_age_hours) is called
SweepExpired(max_age_hours, rmtreeOk) ==
    /\ ~rmtreeOk => upDirs # EmptyMap
    /\ \E o \in cleanup_old_sessions(FM, max_age_hours, rmtreeOk, now) :
          /\ SetFM(o.fm)
          /\ ret' = [NoCall EXCEPT
                        !.op = "sweep", !.ok = ~o.raised,
                        !.max_age = max_age_hours, !.raised = o.raised,
                        !.cleaned = o.cleaned, !.evicted = o.evicted,
                        !.fault = ~rmtreeOk, !.at = now]
    /\ lastList' = {}
    /\ preRestart' = {}
    /\ UNCHANGED <<usedIds, clockVars, refVars, jobVars, thumbVars>>

\* the registry after DocA was uploaded as "a_b" into "s1" and DocB as "cde"
\* into "s2"
TwoSessionsFM ==
    LET empty == [sessions |-> EmptyMap, dirs |-> EmptyMap, files |-> {}]
        fm1 == upload_files(empty, "s1", <<"a", "_", "b">>, DocA, 0)
    IN  upload_files(fm1, "s2", <<"c", "d", "e">>, DocB, 0)

InitSweep ==
    /\ sessions = TwoSessionsFM.sessions
    /\ upDirs = TwoSessionsFM.dirs
    /\ upFiles = TwoSessionsFM.files
    /\ usedIds = {<<"a", "_", "b">>, <<"c", "d", "e">>}
    /\ now = 0
    /\ cleanupRuns = 0
    /\ ret = NoCall
    /\ lastList = {}
    /\ preRestart = {}
    /\ InitRef
    /\ InitJobs
    /\ InitThumbs

NextSweep ==
    \/ \E sid \in SweepSessions, fid \in GenFileIds : Thumbnail(sid, fid, 1, "ok")
    \/ Tick
    \/ \E sid \in SweepSessions, rmtreeOk \in BOOLEAN : DeleteSession(sid, rmtreeOk)
    \/ \E max_age_hours \in MaxAges, rmtreeOk \in BOOLEAN :
          SweepExpired(max_age_hours, rmtreeOk)
    \/ Restart

SpecSweep == InitSweep /\ [][NextSweep]_vars

\* uploads into two sessions at different hours, restarts and sweeps
NextUploadSweep ==
    \/ \E sid \in SweepSessions, doc \in {DocA, DocB} : Upload(sid, doc)
    \/ Tick
    \/ \E max_age_hours \in MaxAges, rmtreeOk \in BOOLEAN :
          SweepExpired(max_age_hours, rmtreeOk)
    \/ Restart

SpecUploadSweep == Init /\ [][NextUploadSweep]_vars

----------------------------------------------------------------------------
(* Several sessions side by side.  A URL carries a session id without '/';
   the upload route takes the session id from the form as it comes *)

FormSessions == SweepSessions \cup {"./s2"}

NextSessions ==
    \/ \E sid \in FormSessions, doc \in {DocA, DocB} : Upload(sid, doc)
    \/ \E sid \in SweepSessions, fid \in GenFileIds : GetFile(sid, fid)
    \/ \E sid \in SweepSessions : ListFiles(sid)
    \/ \E sid \in SweepSessions, fid \in GenFileIds : DeleteFile(sid, fid, TRUE)
    \/ \E sid \in SweepSessions : DeleteSession(sid, TRUE)
    \/ Restart

SpecSessions == Init /\ [][NextSessions]_vars

----------------------------------------------------------------------------
(* Garbage collection: the session with the two uploaded files receives
   merge requests while time passes and the scheduler runs its cleanup job;
   the clock and the scheduler never stop *)

\* scheduled_cleanup, the job the BackgroundScheduler runs at every
\* CLEANUP_INTERVAL: cleanup_old_sessions(max_age_hours=1), with whatever
\* it raises caught and logged
ScheduledCleanup(rmtreeOk) ==
    /\ ~rmtreeOk => upDirs # EmptyMap
    /\ \E o \in cleanup_old_sessions(FM, 1, rmtreeOk, now) :
          /\ SetFM(o.fm)
          /\ ret' = [NoCall EXCEPT
                        !.op = "sweep", !.ok = ~o.raised,
                        !.max_age = 1, !.raised = o.raised,
                        !.cleaned = o.cleaned, !.evicted = o.evicted,
                        !.fault = ~rmtreeOk, !.at = now]
    /\ cleanupRuns' = (cleanupRuns + 1) % 2
    /\ lastList' = {}
    /\ preRestart' = {}
    /\ UNCHANGED <<usedIds, now, refVars, jobVars, thumbVars>>

NextGC ==
    \/ \E req \in JobRequests, fault \in MergeFaults : Merge(req, fault)
    \/ Tick
    \/ \E rmtreeOk \in BOOLEAN : ScheduledCleanup(rmtreeOk)

SpecGC ==
    /\ InitMerge
    /\ [][NextGC]_vars
    /\ WF_vars(Tick)
    /\ WF_vars(\E rmtreeOk \in BOOLEAN : ScheduledCleanup(rmtreeOk))

----------------------------------------------------------------------------
(* Looking jobs up: the session with the two uploaded files receives merge
   requests, and clients ask for the status and the output of jobs, while
   the process may restart and files may disappear from the merged folder *)

\* the job ids clients ask for: the ids the merge route hands out, and a
\* string that is the beginning of one of them
JobIdsAsked == GenJobIds \cup {<<"j">>}

\* session_folder.glob(f"{job_id}_*") over every session folder, with the
\* test on is_file() and the suffix
job_artifacts(files, job_id) ==
    {f \in files : /\ StartsWith(f.name, job_id \o <<"_">>)
                   /\ Lower(Suffix(f.name)) = Str_pdf}

\* restored_job as it would be if it kept the whole file name
restored_job_whole_name(f, job_id) ==
    [session_id |-> f.sid,
     output_path |-> [sid |-> f.sid, name |-> f.name],
     output_filename |-> f.name,
     status |-> "completed",
     total_pages |-> IF f.complete /\ ~f.encrypted THEN Len(f.pages) ELSE 0]

\* the job_info both routes build from a file they found; get_page_count
\* raises on a file that is not a whole PDF and on one that is encrypted
\* with a password, and total_pages is 0 then
restored_job(f, job_id) ==
    [session_id |-> f.sid,
     output_path |-> [sid |-> f.sid, name |-> f.name],
     output_filename |-> SubSeq(f.name, Len(job_id) + 2, Len(f.name)),
     status |-> "completed",
     total_pages |-> IF f.complete /\ ~f.encrypted THEN Len(f.pages) ELSE 0]

\* the lookup both routes start with: job_manager.get(job_id) and, on a
\* miss, the search of the merged folder, which stores what it finds:
\* [jm, job_info], job_info empty for None.  The first file found is taken
find_job(jm, job_id) ==
    IF job_id \in DOMAIN jm.jobs
    THEN {[jm |-> jm, job_info |-> {jm.jobs[job_id]}]}
    ELSE IF job_artifacts(jm.files, job_id) = {}
    THEN {[jm |-> jm, job_info |-> {}]}
    ELSE {[jm |-> [jm EXCEPT !.jobs = Put(@, job_id, restored_job(f, job_id))],
           job_info |-> {restored_job(f, job_id)}]
          : f \in job_artifacts(jm.files, job_id)}

\* download_merged_pdf as it would be without its look at the output file
download_merged_pdf_unchecked(jm, job_id) ==
    {IF o.job_info = {}
     THEN [jm |-> o.jm, status |-> 404, error |-> "Job not found",
           job |-> {}, sent |-> {}]
     ELSE [jm |-> o.jm, status |-> 200, error |-> "", job |-> o.job_info,
           sent |-> {j.output_path : j \in o.job_info}]
     : o \in find_job(jm, job_id)}

\* GET /download/<job_id>: the possible outcomes [jm, status, error, job,
\* sent]; sent holds the path of the file send_file answers with
download_merged_pdf(jm, job_id) ==
    {IF o.job_info = {}
     THEN [jm |-> o.jm, status |-> 404, error |-> "Job not found",
           job |-> {}, sent |-> {}]
     ELSE IF \E j \in o.job_info : ~PathExists(o.jm.files, j.output_path)
     THEN [jm |-> o.jm, status |-> 404, error |-> "Output file not found",
           job |-> o.job_info, sent |-> {}]
     ELSE [jm |-> o.jm, status |-> 200, error |-> "", job |-> o.job_info,
           sent |-> {j.output_path : j \in o.job_info}]
     : o \in find_job(jm, job_id)}

\* GET /job/<job_id>/status: the possible outcomes [jm, status, error, job]
get_job_status(jm, job_id) ==
    {IF o.job_info = {}
     THEN [jm |-> o.jm, status |-> 404, error |-> "Job not found", job |-> {}]
     ELSE [jm |-> o.jm, status |-> 200, error |-> "", job |-> o.job_info]
     : o \in find_job(jm, job_id)}

Download(job_id) ==
    /\ \E o \in download_merged_pdf(JM, job_id) :
          /\ job_manager' = o.jm.jobs
          /\ ret' = [NoCall EXCEPT
                        !.op = "download", !.job_id = job_id,
                        !.hit = job_id \in DOMAIN job_manager,
                        !.ok = o.status = 200, !.status = o.status,
                        !.error = o.error, !.job = o.job, !.sent = o.sent]
    /\ lastList' = {}
    /\ preRestart' = {}
    /\ UNCHANGED <<sessions, upDirs, upFiles, usedIds, clockVars, refVars,
                   mergedDirs, mergedFiles, usedJobIds, jobLog, thumbVars>>

JobStatus(job_id) ==
    /\ \E o \in get_job_status(JM, job_id) :
          /\ job_manager' = o.jm.jobs
          /\ ret' = [NoCall EXCEPT
                        !.op = "status", !.job_id = job_id,
                        !.hit = job_id \in DOMAIN job_manager,
                        !.ok = o.status = 200, !.status = o.status,
                        !.error = o.error, !.job = o.job]
    /\ lastList' = {}
    /\ preRestart' = {}
    /\ UNCHANGED <<sessions, upDirs, upFiles, usedIds, clockVars, refVars,
                   mergedDirs, mergedFiles, usedJobIds, jobLog, thumbVars>>

\* a file of the merged folder is removed from outside the application,
\* which keeps the folder under temp/
RemoveArtifact(f) ==
    /\ f \in mergedFiles
    /\ mergedFiles' = mergedFiles \ {f}
    /\ ret' = [NoCall EXCEPT !.op = "artifact_removed"]
    /\ lastList' = {}
    /\ preRestart' = {}
    /\ UNCHANGED <<sessions, upDirs, upFiles, usedIds, clockVars, refVars,
                   job_manager, mergedDirs, usedJobIds, jobLog, thumbVars>>

NextJobs ==
    \/ \E req \in JobRequests, fault \in MergeFaults : Merge(req, fault)
    \/ \E job_id \in JobIdsAsked : Download(job_id)
    \/ \E job_id \in JobIdsAsked : JobStatus(job_id)
    \/ \E f \in mergedFiles : RemoveArtifact(f)
    \/ Restart

SpecJobs == InitMerge /\ [][NextJobs]_vars

\* merges, deletions of the uploaded files, lookups of the jobs, restarts
NextJobsDelete ==
    \/ \E req \in JobRequests, fault \in MergeFaults : Merge(req, fault)
    \/ \E sid \in Sessions, fid \in GenFileIds, unlinkOk \in BOOLEAN :
          DeleteFile(sid, fid, unlinkOk)
    \/ \E job_id \in JobIdsAsked : Download(job_id)
    \/ \E job_id \in JobIdsAsked : JobStatus(job_id)
    \/ Restart

SpecJobsDelete == InitMerge /\ [][NextJobsDelete]_vars

----------------------------------------------------------------------------
(* Batches of thumbnails and page listings: the session with the two
   uploaded files is asked for batches of thumbnails, whose pool threads run
   one after the other in the order of the request, and for page lists *)

\* len(pages) > 200
BATCH_LIMIT == 200

\* the number of pages of the largest uploaded file
MaxPageCount == 2

\* a list of BATCH_LIMIT + 1 page numbers, all of them pages of DocA
LongBatch == [i \in 1..(BATCH_LIMIT + 1) |-> 1 + (i % 2)]

\* the short pages arrays clients send
BatchLists == {<<>>, <<2, 1>>, <<1, 1>>, <<1, 3>>}

\* what happens inside generate_page_thumbnail for each page number, if it
\* is reached: every render succeeds, or the renders of page 1 go wrong
AllRendersOk == [p \in 1..MaxPageCount |-> "ok"]
BatchOutcomes ==
    {AllRendersOk} \cup {[AllRendersOk EXCEPT ![1] = x] : x \in RenderOutcomes}

\* the url of a page's thumbnail, as its parts
thumbnail_url(sid, fid, page_num) == [sid |-> sid, fid |-> fid, page |-> page_num]

\* generate_single of generate_batch_thumbnails: [th, result]
generate_single(th, files, sid, fid, pdf_path, page_num, force_regenerate, outcome, t) ==
    LET thumbnail_folder == [sid |-> sid, fid |-> fid]
        out == cache_path(pdf_path, page_num, thumbnail_folder)
        th1 == IF force_regenerate
               THEN [th EXCEPT !.files = @ \ ThumbAt(th.files, out)]
               ELSE th
        g == generate_thumbnail_on_demand(th1, files, pdf_path, page_num,
                                          thumbnail_folder, outcome, t)
    IN  [th |-> g.th,
         result |-> [page_number |-> page_num,
                     url |-> thumbnail_url(sid, fid, page_num),
                     status |-> IF /\ g.path # {}
                                   /\ \A q \in g.path : ThumbExists(g.th.files, q)
                                THEN "success" ELSE "failed"]]

\* min(10, len(pages)): the most threads the pool of a batch has
MAX_WORKERS == 10

\* the pool threads take the pages first..last, one after the other:
\* [th, results], results being appended to those of the record so_far
pool_round(so_far, files, sid, fid, pdf_path, pages, first, last, force_regenerate, outcomes, t) ==
    LET after[i \in (first - 1)..last] ==
            IF i = first - 1
            THEN so_far
            ELSE LET before == after[i - 1]
                     g == generate_single(before.th, files, sid, fid, pdf_path,
                              pages[i], force_regenerate, outcomes[pages[i]], t)
                 IN  IF Len(before.results) < i
                     THEN [th |-> g.th, results |-> Append(before.results, g.result)]
                     ELSE before
    IN  after[last]

\* executor.map(generate_single, pages): the pool takes the pages in the
\* order of the request, MAX_WORKERS at a time, and the results come in
\* that order: [th, results]
batch_map(th, files, sid, fid, pdf_path, pages, force_regenerate, outcomes, t) ==
    LET n == Len(pages)
        rounds == (n + MAX_WORKERS - 1) \div MAX_WORKERS
        after[r \in 0..rounds] ==
            IF r = 0
            THEN [th |-> th, results |-> <<>>]
            ELSE LET so_far == after[r - 1]
                 IN  IF Len(so_far.results) < n
                     THEN pool_round(so_far, files, sid, fid, pdf_path, pages,
                              (r - 1) * MAX_WORKERS + 1,
                              IF r * MAX_WORKERS < n THEN r * MAX_WORKERS ELSE n,
                              force_regenerate, outcomes, t)
                     ELSE so_far
    IN  after[rounds]

\* pages[:200] when len(pages) > 200
batch_pages(pages) ==
    IF Len(pages) > BATCH_LIMIT THEN SubSeq(pages, 1, BATCH_LIMIT) ELSE pages

\* POST /pdf/<sid>/<fid>/thumbnails/batch: the possible outcomes
\* [fm, th, status, recs, results]
generate_batch_thumbnails(fm, th, sid, fid, pages, force_regenerate, outcomes, t) ==
    {LET none == [fm |-> o.fm, th |-> th, status |-> 404, recs |-> o.recs,
                  results |-> <<>>]
     IN  IF o.recs = {}
         THEN none
         ELSE LET file_info == CHOOSE x \in o.recs : TRUE
                  page_count == file_info.metadata.page_count
                  limited == batch_pages(pages)
                  th1 == [th EXCEPT !.dirs = @ \cup {[sid |-> sid, fid |-> fid]}]
                  m == batch_map(th1, o.fm.files, sid, fid, file_info.path,
                                 limited, force_regenerate, outcomes, t)
              IN  IF pages = <<>>
                  THEN [none EXCEPT !.status = 400]
                  ELSE IF \E k \in DOMAIN limited :
                             limited[k] < 1 \/ limited[k] > page_count
                  THEN [none EXCEPT !.status = 400]
                  ELSE [fm |-> o.fm, th |-> m.th, status |-> 200,
                        recs |-> o.recs, results |-> m.results]
     : o \in get_file(fm, sid, fid, t)}

Batch(sid, fid, pages, force_regenerate, outcomes) ==
    /\ thumbCalls < MaxThumbCalls
    /\ \E o \in generate_batch_thumbnails(FM, TH, sid, fid, pages,
                                           force_regenerate, outcomes, now) :
          /\ SetFM(o.fm)
          /\ SetTH(o.th)
          /\ ret' = [NoCall EXCEPT
                        !.op = "batch", !.sid = sid, !.fid = fid,
                        !.ok = o.status = 200, !.status = o.status,
                        !.recs = {[file_id |-> fid, info |-> i] : i \in o.recs},
                        !.pages = pages, !.force = force_regenerate,
                        !.outcomes = outcomes, !.results = o.results]
    /\ thumbCalls' = thumbCalls + 1
    /\ lastList' = {}
    /\ preRestart' = {}
    /\ UNCHANGED <<usedIds, clockVars, refVars, jobVars, workers>>

\* Config.PAGES_PER_PAGE
PAGES_PER_PAGE == 100

\* per_page > 200
PER_PAGE_LIMIT == 200

\* the query parameters page and per_page clients send
PageParams == {0, 1, 2}
PerPageParams == {0, 1, 201}

\* the file ids clients ask for: the file of two pages, and no file
BatchFileIds == {<<"a", "_", "b">>, <<"f", "-", "g">>}

\* the list [{page_number, url}] for the pages first..last
RECURSIVE page_list(_, _, _, _)
page_list(sid, fid, first, last) ==
    IF first > last
    THEN <<>>
    ELSE <<[page_number |-> first, url |-> thumbnail_url(sid, fid, first)]>>
         \o page_list(sid, fid, first + 1, last)

\* generate_all_thumbnails as it would be if it rendered every page
generate_all_thumbnails_eager(fm, th, sid, fid, t) ==
    {IF o.recs = {}
     THEN [fm |-> o.fm, th |-> th, status |-> 404, recs |-> o.recs, pages |-> <<>>]
     ELSE LET file_info == CHOOSE x \in o.recs : TRUE
              page_count == file_info.metadata.page_count
              every == [i \in 1..page_count |-> i]
              m == batch_map(th, o.fm.files, sid, fid, file_info.path, every,
                             FALSE, [i \in 1..page_count |-> "ok"], t)
          IN  [fm |-> o.fm, th |-> m.th, status |-> 200, recs |-> o.recs,
               pages |-> page_list(sid, fid, 1, page_count)]
     : o \in get_file(fm, sid, fid, t)}

\* POST /pdf/<sid>/<fid>/thumbnails: the possible outcomes
\* [fm, th, status, recs, pages]
generate_all_thumbnails(fm, th, sid, fid, t) ==
    {IF o.recs = {}
     THEN [fm |-> o.fm, th |-> th, status |-> 404, recs |-> o.recs, pages |-> <<>>]
     ELSE LET file_info == CHOOSE x \in o.recs : TRUE
              page_count == file_info.metadata.page_count
          IN  [fm |-> o.fm, th |-> th, status |-> 200, recs |-> o.recs,
               pages |-> page_list(sid, fid, 1, page_count)]
     : o \in get_file(fm, sid, fid, t)}

\* pagination as it would be if end_page were not cut at page_count
pagination_uncut(page_param, per_page_param, page_count) ==
    LET page == IF page_param < 1 THEN 1 ELSE page_param
        per_page == IF per_page_param < 1 THEN PAGES_PER_PAGE
                    ELSE IF per_page_param > PER_PAGE_LIMIT THEN PER_PAGE_LIMIT
                    ELSE per_page_param
        start_page == (page - 1) * per_page + 1
    IN  [page |-> page, per_page |-> per_page,
         total_pages |-> (page_count + per_page - 1) \div per_page,
         start_page |-> start_page,
         end_page |-> start_page + per_page - 1]

\* the pagination of get_pages_list: [page, per_page, total_pages,
\* start_page, end_page]
pagination(page_param, per_page_param, page_count) ==
    LET page == IF page_param < 1 THEN 1 ELSE page_param
        per_page == IF per_page_param < 1 THEN PAGES_PER_PAGE
                    ELSE IF per_page_param > PER_PAGE_LIMIT THEN PER_PAGE_LIMIT
                    ELSE per_page_param
        start_page == (page - 1) * per_page + 1
        last == start_page + per_page - 1
    IN  [page |-> page, per_page |-> per_page,
         total_pages |-> (page_count + per_page - 1) \div per_page,
         start_page |-> start_page,
         end_page |-> IF last < page_count THEN last ELSE page_count]

\* GET /pdf/<sid>/<fid>/pages?page=&per_page=: the possible outcomes
\* [fm, th, status, recs, pages]
get_pages_list(fm, th, sid, fid, page_param, per_page_param, t) ==
    {IF o.recs = {}
     THEN [fm |-> o.fm, th |-> th, status |-> 404, recs |-> o.recs, pages |-> <<>>]
     ELSE LET file_info == CHOOSE x \in o.recs : TRUE
              p == pagination(page_param, per_page_param,
                              file_info.metadata.page_count)
          IN  [fm |-> o.fm, th |-> th, status |-> 200, recs |-> o.recs,
               pages |-> page_list(sid, fid, p.start_page, p.end_page)]
     : o \in get_file(fm, sid, fid, t)}

ListThumbnails(sid, fid) ==
    /\ \E o \in generate_all_thumbnails(FM, TH, sid, fid, now) :
          /\ SetFM(o.fm)
          /\ SetTH(o.th)
          /\ ret' = [NoCall EXCEPT
                        !.op = "thumbnails", !.sid = sid, !.fid = fid,
                        !.ok = o.status = 200, !.status = o.status,
                        !.recs = {[file_id |-> fid, info |-> i] : i \in o.recs},
                        !.results = o.pages]
    /\ lastList' = {}
    /\ preRestart' = {}
    /\ UNCHANGED <<usedIds, clockVars, refVars, jobVars, thumbCalls, workers>>

ListPages(sid, fid, page_param, per_page_param) ==
    /\ \E o \in get_pages_list(FM, TH, sid, fid, page_param, per_page_param, now) :
          /\ SetFM(o.fm)
          /\ SetTH(o.th)
          /\ ret' = [NoCall EXCEPT
                        !.op = "pages", !.sid = sid, !.fid = fid,
                        !.ok = o.status = 200, !.status = o.status,
                        !.recs = {[file_id |-> fid, info |-> i] : i \in o.recs},
                        !.page = page_param, !.at = per_page_param,
                        !.results = o.pages]
    /\ lastList' = {}
    /\ preRestart' = {}
    /\ UNCHANGED <<usedIds, clockVars, refVars, jobVars, thumbCalls, workers>>

NextBatch ==
    \/ \E sid \in Sessions, fid \in BatchFileIds, pages \in BatchLists,
          force_regenerate \in BOOLEAN, outcomes \in BatchOutcomes :
          Batch(sid, fid, pages, force_regenerate, outcomes)
    \/ \E sid \in Sessions :
          Batch(sid, <<"a", "_", "b">>, LongBatch, FALSE, AllRendersOk)
    \/ \E sid \in Sessions, fid \in BatchFileIds : ListThumbnails(sid, fid)
    \/ \E sid \in Sessions, fid \in BatchFileIds, page_param \in PageParams,
          per_page_param \in PerPageParams :
          ListPages(sid, fid, page_param, per_page_param)
    \/ Restart

SpecBatch == InitThumb /\ [][NextBatch]_vars

----------------------------------------------------------------------------
(* The pagination of the page listing on its own: page counts, pages and
   page sizes are drawn from small sets, and the listing of get_pages_list
   is computed for them *)

\* the largest page count of a file that is listed
MaxListedPages == 8

\* the per_page values asked for, all within 1..PER_PAGE_LIMIT
PerPages == {1, 2, 3, PER_PAGE_LIMIT}

\* get_pages_list from the pagination parameters on, for a file of
\* page_count pages
Paginate(page_count, page_param, per_page_param) ==
    /\ LET p == pagination(page_param, per_page_param, page_count)
       IN  ret' = [NoCall EXCEPT
                      !.op = "paginate", !.sid = "s1", !.fid = <<"a", "_", "b">>,
                      !.ok = TRUE, !.status = 200,
                      !.page = p.page, !.at = p.per_page,
                      !.page_count = page_count, !.total_pages = p.total_pages,
                      !.results = page_list("s1", <<"a", "_", "b">>,
                                            p.start_page, p.end_page)]
    /\ UNCHANGED <<sessions, upDirs, upFiles, usedIds, clockVars, lastList, preRestart,
                   refVars, jobVars, thumbVars>>

NextPagination ==
    \E page_count \in 0..MaxListedPages, page_param \in 1..(MaxListedPages + 1),
       per_page_param \in PerPages :
          Paginate(page_count, page_param, per_page_param)

SpecPagination == Init /\ [][NextPagination]_vars

----------------------------------------------------------------------------
(* Reconstruction from a damaged folder: the session with the two uploaded
   files has files go bad on disk and strange files appear in its folder,
   while the process restarts and serves lookups *)

\* a file no upload stored: its name has no '_'
StrayFile == [sid |-> "s1", name |-> <<"x">> \o Str_pdf, pages |-> 1, size |-> 5,
              mtime |-> 0]

\* a stored file is damaged on disk: PDFProcessor.get_page_count raises on it
Corrupt(f) ==
    /\ f \in upFiles
    /\ Readable(f)
    /\ upFiles' = (upFiles \ {f}) \cup {[f EXCEPT !.pages = 0]}
    /\ ret' = [NoCall EXCEPT !.op = "corrupted", !.sid = f.sid]
    /\ lastList' = {}
    /\ preRestart' = {}
    /\ UNCHANGED <<sessions, upDirs, usedIds, clockVars, refVars, jobVars, thumbVars>>

\* something other than the upload route puts a file into a session folder
Stray ==
    /\ StrayFile.sid \in DOMAIN upDirs
    /\ ~PathExists(upFiles, [sid |-> StrayFile.sid, name |-> StrayFile.name])
    /\ upFiles' = upFiles \cup {StrayFile}
    /\ ret' = [NoCall EXCEPT !.op = "stray", !.sid = StrayFile.sid]
    /\ lastList' = {}
    /\ preRestart' = {}
    /\ UNCHANGED <<sessions, upDirs, usedIds, clockVars, refVars, jobVars, thumbVars>>

\* the files the two uploads stored, sound or damaged
StoredFiles == UploadedFM.files \cup {[f EXCEPT !.pages = 0] : f \in UploadedFM.files}

NextScan ==
    \/ \E f \in StoredFiles : Corrupt(f)
    \/ Stray
    \/ \E sid \in Sessions, fid \in FileIds : GetFile(sid, fid)
    \/ \E sid \in Sessions : ListFiles(sid)
    \/ \E sid \in Sessions, fid \in FileIds : DeleteFile(sid, fid, TRUE)
    \/ Restart

SpecScan == InitMerge /\ [][NextScan]_vars

----------------------------------------------------------------------------
(* The registry under concurrent requests: the process has restarted with
   the two uploaded files on disk, and its threads serve lookups and
   deletions of these files at the same time.  FileManager takes no lock. *)

\* the file ids of the two uploaded files
StoredIds == {<<"a", "_", "b">>, <<"c", "d", "e">>}

AllIdle == \A w \in Workers : workers[w].pc = "idle"

\* the response of a lookup served by thread w
GetReturns(w, sid, fid, recs) ==
    /\ ret' = [NoCall EXCEPT
                  !.op = "get", !.sid = sid, !.fid = fid, !.ok = recs # {},
                  !.recs = {[file_id |-> fid, info |-> i] : i \in recs}]
    /\ workers' = [workers EXCEPT ![w] = Idle]

\* get_file from its start: the look into self.sessions and, on a miss, the
\* glob, get_page_count and the stat for the size of a match
G_Check(w, sid, fid) ==
    /\ workers[w].pc = "idle"
    /\ IF Indexed(sessions, sid, fid)
       THEN GetReturns(w, sid, fid, {sessions[sid].files[fid]})
       ELSE IF session_folder_exists(FM, sid) /\ get_file_matches(FM, sid, fid) # {}
       THEN /\ \E f \in get_file_matches(FM, sid, fid) :
                  workers' = [workers EXCEPT ![w] =
                      [Idle EXCEPT !.pc = "session", !.kind = "get", !.sid = sid,
                                   !.fid = fid,
                                   !.info = {restored_by_get_file(f, fid)}]]
            /\ UNCHANGED ret
       ELSE GetReturns(w, sid, fid, {})
    /\ lastList' = {}
    /\ preRestart' = {}
    /\ UNCHANGED <<sessions, upDirs, upFiles, usedIds, clockVars, refVars, jobVars,
                   thumbDirs, thumbFiles, renders, thumbCalls>>

\* get_file on: create_session if the session is not in self.sessions, and
\* the stat for st_mtime, which raises when the file is gone; the exception
\* is caught, and no other file matches the id
G_Session(w) ==
    /\ workers[w].pc = "session"
    /\ LET sid == workers[w].sid
           fm1 == IF sid \notin DOMAIN sessions
                  THEN create_session(FM, sid, now)
                  ELSE FM
       IN  /\ SetFM(fm1)
           /\ IF \A i \in workers[w].info : PathExists(upFiles, i.path)
              THEN /\ workers' = [workers EXCEPT ![w].pc = "insert"]
                   /\ UNCHANGED ret
              ELSE GetReturns(w, sid, workers[w].fid, {})
    /\ UNCHANGED <<usedIds, clockVars, lastList, preRestart, refVars, jobVars,
                   thumbDirs, thumbFiles, renders, thumbCalls>>

\* get_file on: self.sessions[session_id]['files'][file_id] = file_info and
\* the return of file_info; a KeyError for a session that is gone is caught
G_Insert(w) ==
    /\ workers[w].pc = "insert"
    /\ LET sid == workers[w].sid
           fid == workers[w].fid
       IN  IF sid \in DOMAIN sessions
           THEN /\ sessions' = [sessions EXCEPT ![sid].files =
                                   Put(@, fid, CHOOSE i \in workers[w].info : TRUE)]
                /\ GetReturns(w, sid, fid, workers[w].info)
           ELSE /\ UNCHANGED sessions
                /\ GetReturns(w, sid, fid, {})
    /\ UNCHANGED <<upDirs, upFiles, usedIds, clockVars, lastList, preRestart, refVars,
                   jobVars, thumbDirs, thumbFiles, renders, thumbCalls>>

\* the process has just restarted: nothing in memory, the uploads on disk
InitRestarted ==
    /\ sessions = EmptyMap
    /\ upDirs = UploadedFM.dirs
    /\ upFiles = UploadedFM.files
    /\ usedIds = StoredIds
    /\ now = 0
    /\ cleanupRuns = 0
    /\ ret = NoCall
    /\ lastList = {}
    /\ preRestart = {}
    /\ InitRef
    /\ InitJobs
    /\ InitThumbs

NextGetDelete ==
    \/ \E w \in Workers, sid \in Sessions, fid \in StoredIds : G_Check(w, sid, fid)
    \/ \E w \in Workers : G_Session(w)
    \/ \E w \in Workers : G_Insert(w)
    \/ \E sid \in Sessions, fid \in StoredIds : DeleteFile(sid, fid, TRUE)

SpecGetDelete == InitRestarted /\ [][NextGetDelete]_vars

----------------------------------------------------------------------------
(* An upload of one valid PDF served by a thread, step by step, while
   DELETE /api/session/<sid> is served by another *)

\* the response of the upload route for the file thread w is handling
UploadReturns(w, ok, error) ==
    /\ ret' = [NoCall EXCEPT
                  !.op = "upload", !.sid = workers[w].sid, !.fid = workers[w].fid,
                  !.ok = ok, !.error = error,
                  !.recs = IF ok
                           THEN {[file_id |-> workers[w].fid,
                                  info |-> [path |-> p, metadata |-> m,
                                            added_at |-> now]] :
                                    p \in workers[w].path, m \in workers[w].info}
                           ELSE {}]
    /\ workers' = [workers EXCEPT ![w] = Idle]

\* upload_files from its start: ensure_session_folders, generate_file_id
\* and file.save
U_Save(w, sid, doc) ==
    /\ workers[w].pc = "idle"
    /\ Cardinality(usedIds) < MaxUploads
    /\ allowed_file(doc.filename)
    /\ \E fid \in generate_file_id(usedIds) :
          /\ SetFM(save_file(ensure_session_folders(FM, sid, now),
                             upload_path(sid, fid, doc), doc.pages, doc.size, now))
          /\ usedIds' = usedIds \cup {fid}
          /\ workers' = [workers EXCEPT ![w] =
                [Idle EXCEPT !.pc = "validate", !.kind = "upload", !.sid = sid,
                             !.fid = fid, !.path = {upload_path(sid, fid, doc)},
                             !.info = {upload_metadata(doc)}]]
    /\ lastList' = {}
    /\ preRestart' = {}
    /\ UNCHANGED <<ret, clockVars, refVars, jobVars, thumbDirs, thumbFiles, renders,
                   thumbCalls>>

\* upload_files on: validate_pdf, get_page_count and stat read the saved
\* file; when it is gone they raise, and the route's except reports the file
\* in errors
U_Validate(w) ==
    /\ workers[w].pc = "validate"
    /\ IF \A p \in workers[w].path : PathExists(upFiles, p)
       THEN /\ workers' = [workers EXCEPT ![w].pc = "add_check"]
            /\ UNCHANGED ret
       ELSE UploadReturns(w, FALSE, "FileNotFoundError")
    /\ UNCHANGED <<sessions, upDirs, upFiles, usedIds, clockVars, lastList, preRestart,
                   refVars, jobVars, thumbDirs, thumbFiles, renders, thumbCalls>>

\* add_file from its start: create_session if the session is not in
\* self.sessions
U_Check(w) ==
    /\ workers[w].pc = "add_check"
    /\ SetFM(IF workers[w].sid \notin DOMAIN sessions
             THEN create_session(FM, workers[w].sid, now)
             ELSE FM)
    /\ workers' = [workers EXCEPT ![w].pc = "add_insert"]
    /\ UNCHANGED <<ret, usedIds, clockVars, lastList, preRestart, refVars, jobVars,
                   thumbDirs, thumbFiles, renders, thumbCalls>>

\* add_file on: self.sessions[session_id]['files'][file_id] = {...}, which
\* raises KeyError when the session is no longer in self.sessions; add_file
\* lets it out, and the route's except reports the file in errors
U_Insert(w) ==
    /\ workers[w].pc = "add_insert"
    /\ LET sid == workers[w].sid
       IN  IF sid \in DOMAIN sessions
           THEN /\ sessions' = [sessions EXCEPT ![sid].files =
                      Put(@, workers[w].fid,
                          [path |-> CHOOSE p \in workers[w].path : TRUE,
                           metadata |-> CHOOSE m \in workers[w].info : TRUE,
                           added_at |-> now])]
                /\ UploadReturns(w, TRUE, "")
           ELSE /\ UNCHANGED sessions
                /\ UploadReturns(w, FALSE, "KeyError")
    /\ UNCHANGED <<upDirs, upFiles, usedIds, clockVars, lastList, preRestart, refVars,
                   jobVars, thumbDirs, thumbFiles, renders, thumbCalls>>

NextUploadCleanup ==
    \/ \E w \in Workers, sid \in Sessions, doc \in Docs : U_Save(w, sid, doc)
    \/ \E w \in Workers : U_Validate(w)
    \/ \E w \in Workers : U_Check(w)
    \/ \E w \in Workers : U_Insert(w)
    \/ \E sid \in Sessions : DeleteSession(sid, TRUE)

SpecUploadCleanup == Init /\ [][NextUploadCleanup]_vars

----------------------------------------------------------------------------
(* Claims about the session registry *)

\* C1: a ListFiles that directly follows a restart returns the same set of
\* (fileID, filename, pageCount) triples as the ListFiles of the same
\* session that directly preceded the restart.
C1_ListSameAfterRestart ==
    (ret.op = "list" /\ ret.before # {})
        => ret.before = {Triples(ret.recs)}

\* C2: every call returns the same value in the process, whatever restarts
\* it went through, as in the reference process that never restarted.
C2_RestartTransparent ==
    /\ ret.ok = refRet.ok
    /\ ret.recs = refRet.recs

\* C3: when DeleteFile is called (and unlink does not fail) for a file that
\* GetFile would have returned, from memory or from disk, it succeeds, the
\* file's bytes and its index entry are gone, and GetFile now returns None.
C3_DeleteRemovesFile ==
    (/\ ret.op = "delete"
     /\ ret.was # {}
     /\ \A e \in ret.was : StoredAs(ret.fid, e.info.path)
     /\ ~ret.fault)
        => /\ ret.ok
           /\ \A e \in ret.was : ~PathExists(upFiles, e.info.path)
           /\ ~(ret.sid \in DOMAIN sessions
                 /\ ret.fid \in DOMAIN sessions[ret.sid].files)
           /\ WouldGet(FM, ret.sid, ret.fid, now) = {}

\* C4: after add_file (called by upload) the session has an in-memory
\* record, GetFile returns exactly the path and metadata that were passed,
\* ListFiles contains the file id, and every other file record the session
\* had indexed is unchanged.
C4_AddFileThenGet ==
    [][ret'.op = "upload" =>
         LET s == ret'.sid
             f == ret'.fid
         IN  /\ s \in DOMAIN sessions'
             /\ \A o \in get_file(FM', s, f, now') :
                    {[path |-> i.path, metadata |-> i.metadata] : i \in o.recs}
                    = {[path |-> e.info.path, metadata |-> e.info.metadata]
                         : e \in ret'.recs}
             /\ \A o \in get_session_files(FM', s, now') : f \in DOMAIN o.files
             /\ s \in DOMAIN sessions =>
                    \A g \in DOMAIN sessions[s].files \ {f} :
                       /\ g \in DOMAIN sessions'[s].files
                       /\ sessions'[s].files[g] = sessions[s].files[g]
       ]_vars

\* C4's case: an upload into a session that already holds another indexed file
C4_Witness ==
    /\ ret.op = "upload"
    /\ ~ret.created
    /\ Cardinality(DOMAIN sessions[ret.sid].files) = 2

----------------------------------------------------------------------------
(* Claims about the merge route *)

\* the pages the selections sels[i..] ask for, in declaration order, each
\* taken from the file the i-th source names
RECURSIVE SelectedPages(_, _, _)
SelectedPages(sels, sources, i) ==
    IF i > Len(sels)
    THEN <<>>
    ELSE [k \in 1..Len(sels[i].pages) |->
             [name |-> sources[i].path.name, page |-> sels[i].pages[k]]]
         \o SelectedPages(sels, sources, i + 1)

RECURSIVE SumOfPages(_, _)
SumOfPages(sels, i) ==
    IF i > Len(sels) THEN 0 ELSE Len(sels[i].pages) + SumOfPages(sels, i + 1)

\* C5: an accepted merge writes an output file that holds exactly one page
\* for each selected page number of each selection, in declaration order and
\* without de-duplication, every page taken from the file the registry holds
\* for the selection's file id; the job's total_pages is the sum of the
\* lengths of the page lists.
C5_MergeOutputPages ==
    (ret.op = "merge" /\ ret.status = 200) =>
        LET sels == ret.req.selections
        IN  /\ Len(ret.sources) = Len(sels)
            /\ \A i \in 1..Len(sels) :
                  /\ sels[i].file_id \in DOMAIN sessions[ret.sid].files
                  /\ ret.sources[i].path
                        = sessions[ret.sid].files[sels[i].file_id].path
            /\ ret.job_id \in DOMAIN job_manager
            /\ job_manager[ret.job_id].output_path \in ret.out
            /\ job_manager[ret.job_id].total_pages = SumOfPages(sels, 1)
            /\ \A p \in ret.out :
                  /\ PathExists(mergedFiles, p)
                  /\ \A f \in FileAt(mergedFiles, p) :
                        /\ f.complete
                        /\ f.pages = SelectedPages(sels, ret.sources, 1)

\* C5's case: an accepted merge that selects a file, another file, and the
\* first file again, with a page repeated within a selection and across
\* selections
C5_Witness ==
    /\ ret.op = "merge"
    /\ ret.status = 200
    /\ ret.req.selections
          = << [file_id |-> <<"a", "_", "b">>, pages |-> <<2, 1, 1>>],
               [file_id |-> <<"c", "d", "e">>, pages |-> <<1>>],
               [file_id |-> <<"a", "_", "b">>, pages |-> <<2, 1, 1>>] >>
    /\ \E f \in mergedFiles : Len(f.pages) = 7

\* the page counts GetFile would give for a file id
PageCounts(fm, sid, fid, t) ==
    {e.info.metadata.page_count : e \in WouldGet(fm, sid, fid, t)}

\* the selection names page 0 (or below), or a page above its file's count
BadSelection(fm, sid, sel, t) ==
    \E k \in 1..Len(sel.pages) :
        \/ sel.pages[k] < 1
        \/ \E n \in PageCounts(fm, sid, sel.file_id, t) : sel.pages[k] > n

\* GetFile does not find the file, or finds a record whose file is gone
Unavailable(fm, sid, fid, t) ==
    \/ WouldGet(fm, sid, fid, t) = {}
    \/ \E e \in WouldGet(fm, sid, fid, t) : ~PathExists(fm.files, e.info.path)

C7_FailedMergeLeavesNoFile ==
    (ret.op = "merge" /\ ret.status # 200) =>
        \A p \in ret.out : ~PathExists(mergedFiles, p)

----------------------------------------------------------------------------
(* Claims about the thumbnail cache *)

\* two thumbnail requests follow one another and came to look at the same
\* cache path
SuccessiveThumbCalls ==
    /\ ret.op = "thumb"
    /\ ret'.op = "thumb"
    /\ ret.key # {}
    /\ ret'.key = ret.key

\* the cached bytes at the paths in key are the same before and after the step
BytesUnchanged(key) ==
    \A q \in key :
        {f.bytes : f \in ThumbAt(thumbFiles', q)}
            = {f.bytes : f \in ThumbAt(thumbFiles, q)}

\* C8 as written: two successive generate_thumbnail_on_demand calls for the
\* same file and valid page invoke the renderer exactly once in total; the
\* second call is a cache hit that returns the same path, and the cached
\* bytes are unchanged.
C8_RenderOnceThenHit ==
    [][SuccessiveThumbCalls =>
          /\ ret.rendered + ret'.rendered = 1
          /\ ret'.hit
          /\ ret'.out # {}
          /\ ret'.out = ret.out
          /\ BytesUnchanged(ret.key)
      ]_vars

\* C8, amended: when a generate_thumbnail_on_demand call returned a path,
\* the next call for the same file and page is a cache hit: it invokes no
\* render, returns the same path, and leaves the cached bytes unchanged; the
\* two calls together invoke the renderer once when the first call was a
\* miss, and not at all when it was itself a hit.
C8_HitAfterReturnedPath ==
    [][(SuccessiveThumbCalls /\ ret.out # {}) =>
          /\ ret'.hit
          /\ ret'.rendered = 0
          /\ ret'.out = ret.out
          /\ BytesUnchanged(ret.key)
          /\ ret.rendered + ret'.rendered = (IF ret.hit THEN 0 ELSE 1)
      ]_vars

\* C8's case: the second of two requests for the same page was a cache hit
\* on the file the first one rendered
C8_Witness ==
    /\ ret.op = "thumb"
    /\ ret.hit
    /\ thumbCalls = 2
    /\ \A q \in ret.key :
          /\ q \in DOMAIN renders
          /\ renders[q] = 1
          /\ \E f \in ThumbAt(thumbFiles, q) : f.bytes.gen = 1
    /\ ret.out = ret.key

\* "{thumbnail_root}/{session}/{file}/{stem}_page_{N}.jpg" for the stored
\* PDF at pdf_path
ThumbnailPathOf(sid, fid, pdf_path, n) ==
    [sid |-> sid, fid |-> fid,
     name |-> Stem(pdf_path.name) \o <<"_", "p", "a", "g", "e", "_">>
              \o Digit(n) \o <<".", "j", "p", "g">>]

\* a step that answers a single-page thumbnail request for a file that
\* GetFile finds, with its bytes on disk
ThumbRequestForFile(e) ==
    /\ ret'.op = "thumb"
    /\ e \in WouldGet(FM, ret'.sid, ret'.fid, now)
    /\ PathExists(upFiles, e.info.path)

\* the request is answered with an error, renders nothing and creates no file
ThumbRejected ==
    /\ ret'.status \in {400, 404}
    /\ ret'.rendered = 0
    /\ renders' = renders
    /\ thumbFiles' = thumbFiles

C10_ConcurrentRenderAtMostOnce ==
    \A w1, w2 \in Workers :
        (/\ w1 # w2
         /\ workers[w1].key # {}
         /\ workers[w1].key = workers[w2].key
         /\ ~workers[w1].force
         /\ ~workers[w2].force)
            => ~(workers[w1].converted /\ workers[w2].converted)

----------------------------------------------------------------------------
(* Claims about the writing of thumbnails *)

\* C11: while one request is rendering and writing a thumbnail, no concurrent
\* request for the same cache key takes the cache-hit path and is served a
\* partially written file: a request that found its cache path existing and
\* did not render has a complete thumbnail at that path.
C11_NoPartialFileOnHitPath ==
    \A w \in Workers :
        (/\ workers[w].pc = "return"
         /\ ~workers[w].converted)
            => \A q \in workers[w].path :
                  \A f \in ThumbAt(thumbFiles, q) : f.bytes # EmptyBytes

----------------------------------------------------------------------------
(* Claims about the end of sessions *)

\* the step is a call of cleanup_old_sessions in which every rmtree succeeds
SweepStep ==
    /\ ret'.op = "sweep"
    /\ ret'.at = now'
    /\ ~ret'.fault

\* C12: for any set of in-memory sessions whose creation time is in the
\* past, a single cleanup_old_sessions with max_age_hours = 0 runs to
\* completion, and afterwards none of those sessions has an index entry or
\* a directory tree.
C12_SweepRemovesPastSessions ==
    [][(SweepStep /\ ret'.max_age = 0)
          => /\ ~ret'.raised
             /\ \A s \in DOMAIN sessions :
                   sessions[s].created_at < now
                      => /\ s \notin DOMAIN sessions'
                         /\ s \notin DOMAIN upDirs'
                         /\ \A f \in upFiles' : f.sid # s]_vars

\* C13: a second cleanup_old_sessions with the same max_age_hours, run
\* immediately after a first one with no operation in between, changes
\* neither the in-memory index nor the disk and reports 0 sessions cleaned.
C13_SweepIdempotent ==
    [][(/\ SweepStep
        /\ ret.op = "sweep"
        /\ ret.at = now
        /\ ~ret.fault
        /\ ret'.max_age = ret.max_age)
          => /\ sessions' = sessions
             /\ upDirs' = upDirs
             /\ upFiles' = upFiles
             /\ ~ret'.raised
             /\ ret'.cleaned = 0]_vars

\* the sessions the last call destroyed
Destroyed ==
    IF ret.op = "delete_session" /\ ret.ok THEN {ret.sid}
    ELSE IF ret.op = "sweep" THEN ret.evicted
    ELSE {}

\* C14: after a session is destroyed, by DeleteSession or by the sweep, none
\* of its uploaded files and none of the thumbnails made from its files
\* remain on disk.
C14_DestroyedSessionLeavesNothing ==
    \A s \in Destroyed :
        /\ \A f \in upFiles : f.sid # s
        /\ \A f \in thumbFiles : f.sid # s

\* the merge output of job j is on disk and older than the hour the
\* scheduled cleanup allows
OldArtifact(j) ==
    /\ j \in DOMAIN job_manager
    /\ \E f \in FileAt(mergedFiles, job_manager[j].output_path) : now - f.mtime > 1

\* neither the record of job j nor a file "{j}_*" under MERGED_FOLDER is left
Collected(j) ==
    /\ j \notin DOMAIN job_manager
    /\ \A f \in mergedFiles : ~StartsWith(f.name, j \o <<"_">>)

\* C15: if the scheduled cleanup keeps running, a merge output older than
\* the age threshold is eventually removed from disk and its job record from
\* the in-memory job registry.
C15_MergeArtifactEventuallyCollected ==
    \A j \in GenJobIds : OldArtifact(j) ~> Collected(j)

----------------------------------------------------------------------------
(* Claims about looking jobs up *)

\* C16: a download of a job id that has no index entry and no matching file
\* in the merged folder answers 'Job not found'; a download of a job id
\* whose index entry exists while its output file is gone answers the
\* different error 'Output file not found'; neither sends a file.
C16_DownloadTellsMissingOutputFromUnknownJob ==
    [][ret'.op = "download"
          => /\ (/\ ret'.job_id \notin DOMAIN job_manager
                 /\ job_artifacts(mergedFiles, ret'.job_id) = {})
                    => /\ ret'.status = 404
                       /\ ret'.error = "Job not found"
                       /\ ret'.sent = {}
             /\ (/\ ret'.job_id \in DOMAIN job_manager
                 /\ ~PathExists(mergedFiles,
                                job_manager[ret'.job_id].output_path))
                    => /\ ret'.status = 404
                       /\ ret'.error = "Output file not found"
                       /\ ret'.sent = {}]_vars

\* a download was asked for a job that is in the index while its output
\* file is gone
C16_Witness ==
    /\ ret.op = "download"
    /\ ret.job_id \in DOMAIN job_manager
    /\ ret.job_id \in DOMAIN jobLog
    /\ ~PathExists(mergedFiles, job_manager[ret.job_id].output_path)
    /\ ret.error = "Output file not found"

\* the step is a status or download lookup of a completed merge job whose
\* record is not in memory while its output file is on disk
LookupAfterClear ==
    /\ ret'.op \in {"status", "download"}
    /\ ret'.job_id \in DOMAIN jobLog
    /\ ret'.job_id \notin DOMAIN job_manager
    /\ PathExists(mergedFiles, jobLog[ret'.job_id].output_path)

\* the lookup of the step found the record rec, stored it in memory again,
\* and, if it is a download, sent that job's own output file
LookupGave(rec) ==
    /\ ret'.status = 200
    /\ ret'.job = {rec}
    /\ ret'.job_id \in DOMAIN job_manager'
    /\ job_manager'[ret'.job_id] = rec
    /\ ret'.op = "download" => ret'.sent = {jobLog[ret'.job_id].output_path}

\* C17: for every completed merge job, a status or download lookup made
\* after the in-memory job registry was cleared, with the output file kept,
\* gives a record of that job with the same session, output filename,
\* total page count and status as the record stored at creation, stores it
\* in memory again, and never gives another job's output file.
C17_LookupRestoresStoredRecord ==
    [][LookupAfterClear => LookupGave(jobLog[ret'.job_id])]_vars

\* C17, amended: the same, except that the total page count of the restored
\* record is 0 when the output file is encrypted with a password.
C17_LookupRestoresRecordButPagesOfEncrypted ==
    [][LookupAfterClear =>
          LookupGave([jobLog[ret'.job_id] EXCEPT
              !.total_pages =
                  IF \E f \in FileAt(mergedFiles, jobLog[ret'.job_id].output_path) :
                        f.encrypted
                  THEN 0 ELSE @])]_vars

\* the record of a completed job whose output is encrypted was restored
\* from disk, with the output file of another job in the merged folder
C17_Witness ==
    /\ ret.op \in {"status", "download"}
    /\ ~ret.hit
    /\ ret.job_id \in DOMAIN jobLog
    /\ ret.job_id \in DOMAIN job_manager
    /\ ret.job = {job_manager[ret.job_id]}
    /\ jobLog[ret.job_id].total_pages = 1
    /\ job_manager[ret.job_id].total_pages = 0
    /\ \E f \in mergedFiles :
          /\ f.complete
          /\ ~StartsWith(f.name, ret.job_id \o <<"_">>)

\* the step is a batch thumbnail call for a file that was found, with a
\* non-empty pages array of which every number is a page of the file
ValidBatchCall ==
    /\ ret'.op = "batch"
    /\ ret'.recs # {}
    /\ ret'.pages # <<>>
    /\ \A r \in ret'.recs, k \in DOMAIN ret'.pages :
          ret'.pages[k] \in 1..r.info.metadata.page_count

\* C18: a batch thumbnail call whose page numbers are all valid returns
\* exactly one result per requested page, in request order, each tagged
\* success or failed; a render failure of one page marks only that page's
\* result as failed, and every other page's result is what it would have
\* been without that failure.
C18_BatchOneResultPerPage ==
    [][ValidBatchCall =>
          /\ ret'.status = 200
          /\ Len(ret'.results) = Len(ret'.pages)
          /\ \A k \in DOMAIN ret'.results :
                /\ ret'.results[k].page_number = ret'.pages[k]
                /\ ret'.results[k].status \in {"success", "failed"}
          /\ \A clean \in generate_batch_thumbnails(FM, TH, ret'.sid, ret'.fid,
                              ret'.pages, ret'.force, AllRendersOk, now) :
                \A k \in DOMAIN ret'.results :
                   ret'.outcomes[ret'.pages[k]] = "ok"
                      => ret'.results[k] = clean.results[k]]_vars

\* the step is a listing of all thumbnails of a file, or a listing of one
\* page of its pages
ListingStep == ret'.op \in {"thumbnails", "pages"}

\* the listing of the step leaves the thumbnail cache as it was and renders
\* nothing, and answers 404 with no list when the file is not found
ListingRendersNothing ==
    /\ thumbDirs' = thumbDirs
    /\ thumbFiles' = thumbFiles
    /\ renders' = renders
    /\ ret'.recs = {} => ret'.status = 404 /\ ret'.results = <<>>

\* the list returned by the step holds exactly the page numbers of the set
\* numbers, in rising order, each with its canonical request path
ListingGave(numbers) ==
    /\ ret'.status = 200
    /\ Len(ret'.results) = Cardinality(numbers)
    /\ {ret'.results[k].page_number : k \in DOMAIN ret'.results} = numbers
    /\ \A k \in DOMAIN ret'.results :
          /\ ret'.results[k].url =
                 thumbnail_url(ret'.sid, ret'.fid, ret'.results[k].page_number)
          /\ k > 1 => ret'.results[k - 1].page_number < ret'.results[k].page_number

\* the page numbers of a file of page_count pages that fall on page
\* page_param of per_page_param numbers each
PageWindow(page_param, per_page_param, page_count) ==
    LET page == IF page_param < 1 THEN 1 ELSE page_param
        per_page == IF per_page_param < 1 THEN PAGES_PER_PAGE
                    ELSE IF per_page_param > PER_PAGE_LIMIT THEN PER_PAGE_LIMIT
                    ELSE per_page_param
    IN  {n \in 1..page_count : (page - 1) * per_page < n /\ n <= page * per_page}

DeleteWithFailedUnlink == ret'.op = "delete" /\ ret'.fault

\* C20: if unlinking the backing file fails during DeleteFile, DeleteFile
\* reports failure (returns false), and both the index entry and the file
\* on disk are left as they were before the call.
C20_FailedUnlinkLeavesIndexAndFile ==
    [][DeleteWithFailedUnlink =>
          /\ ~ret'.ok
          /\ sessions' = sessions
          /\ upFiles' = upFiles
          /\ upDirs' = upDirs
          /\ ret'.sid \in DOMAIN sessions'
          /\ ret'.fid \in DOMAIN sessions'[ret'.sid].files
          /\ PathExists(upFiles', sessions'[ret'.sid].files[ret'.fid].path)]_vars

\* a DeleteFile call of an indexed file, present on disk, failed to unlink
\* it, and the file is still indexed and on disk
C20_Witness ==
    /\ ret.op = "delete"
    /\ ret.fault
    /\ ~ret.ok
    /\ ret.was # {}
    /\ ret.sid \in DOMAIN sessions
    /\ ret.fid \in DOMAIN sessions[ret.sid].files
    /\ PathExists(upFiles, sessions[ret.sid].files[ret.fid].path)

\* C21: a thumbnail cache entry, once written, is never removed or rewritten
\* by a single-page, batch (force_regenerate included) or listing request:
\* an existing cache file stays present with the same content.
C21_CacheEntryImmutable ==
    [][\A f \in thumbFiles :
          \E g \in thumbFiles' :
             /\ g.sid = f.sid /\ g.fid = f.fid /\ g.name = f.name
             /\ g.bytes = f.bytes]_vars

\* C22: when a render fails at any step (rasterisation, encoding, saving or
\* the check of the saved file), no file exists at the canonical cache path
\* afterwards, and a retry of the same request renders again instead of
\* being served the failed attempt's file as a cache hit.
C22_FailedRenderLeavesNoFile ==
    [][/\ (ret'.op = "thumb" /\ ret'.render = "failed")
              => \A q \in ret'.key : ~ThumbExists(thumbFiles', q)
       /\ (SuccessiveThumbCalls /\ ret.render = "failed")
              => ~ret'.hit /\ ret'.rendered = 1]_vars

\* C23: when GetFile misses memory and rebuilds a record from disk, that
\* record is inserted into the in-memory index, the session entry being
\* created if needed; and a GetFile for a (session, file) the index holds
\* returns the record of the index and changes neither index nor disk, so
\* the next GetFile for the same (session, file) returns the identical
\* record.
C23_GetFileWritesThrough ==
    [][ret'.op = "get" =>
          /\ (~ret'.hit /\ ret'.recs # {}) =>
                /\ Indexed(sessions', ret'.sid, ret'.fid)
                /\ ret'.recs = {[file_id |-> ret'.fid,
                                 info |-> sessions'[ret'.sid].files[ret'.fid]]}
          /\ ret'.hit =>
                /\ ret'.recs = {[file_id |-> ret'.fid,
                                 info |-> sessions[ret'.sid].files[ret'.fid]]}
                /\ sessions' = sessions
                /\ upFiles' = upFiles
                /\ upDirs' = upDirs
          /\ (ret.op = "get" /\ ret.sid = ret'.sid /\ ret.fid = ret'.fid
                 /\ ret.recs # {}) =>
                ret'.hit /\ ret'.recs = ret.recs]_vars

\* a GetFile was served from memory the record an earlier GetFile had
\* rebuilt from disk: its original_filename is the stored name d_e.pdf
C23_Witness ==
    /\ ret.op = "get"
    /\ ret.hit
    /\ \E r \in ret.recs :
          r.info.metadata.original_filename = <<"d", "_", "e">> \o Str_pdf

\* C24: when the reconstruction of a file fails (the matching file is
\* unreadable as a PDF, or no conforming file exists), GetFile returns
\* NotFound and changes neither the in-memory index nor the disk; likewise
\* a ListFiles that restores nothing adds no session entry to the index.
C24_FailedReconstructionChangesNothing ==
    [][/\ (ret'.op = "get" /\ ret'.recs = {}) =>
              /\ sessions' = sessions
              /\ upFiles' = upFiles
              /\ upDirs' = upDirs
       /\ (ret'.op = "list" /\ ret'.recs = {}) =>
              /\ DOMAIN sessions' = DOMAIN sessions
              /\ upFiles' = upFiles
              /\ upDirs' = upDirs]_vars

----------------------------------------------------------------------------
(* Claims about reconstruction *)

\* f is a file of folder sid that a scan of the folder has to skip: it
\* cannot be read as a PDF, or its name is not of the form "{id}_{name}.pdf"
SkippedByScan(f, sid) ==
    /\ f.sid = sid
    /\ \/ ~Readable(f)
       \/ ~EndsWith(f.name, Str_pdf)
       \/ FirstIndexOf(Stem(f.name), "_") = 0

\* the step is a ListFiles that missed memory and scanned the folder of the
\* session
ScanningList ==
    /\ ret'.op = "list"
    /\ ~ret'.hit
    /\ ret'.sid \in DOMAIN upDirs

C26_GetFileOwnFileOnly ==
    [][ret'.op = "get" =>
          /\ \A r \in ret'.recs : StoredAs(ret'.fid, r.info.path)
          /\ Indexed(sessions', ret'.sid, ret'.fid) =>
                StoredAs(ret'.fid, sessions'[ret'.sid].files[ret'.fid].path)
          /\ (ret.op = "delete" /\ ret.ok /\ ret.sid = ret'.sid
                 /\ ret.fid = ret'.fid) => ret'.recs = {}]_vars

\* C27: every file record of the in-memory index has its backing file on
\* disk, after any sequence of lookups, restarts, session deletions and
\* sweeps; the sweep of old folders never removes the directory of a session
\* that keeps its entry in the index.
C27_IndexedFilesAreOnDisk ==
    /\ \A sid \in DOMAIN sessions :
          \A fid \in DOMAIN sessions[sid].files :
             PathExists(upFiles, sessions[sid].files[fid].path)
    /\ (ret.op = "sweep" /\ ~ret.raised) =>
          \A sid \in ret.evicted : sid \notin DOMAIN sessions

----------------------------------------------------------------------------
(* Claims about concurrent requests to the registry *)

\* the file stored for the id fid in the folder of sid is on disk
StoredOnDisk(sid, fid) ==
    \E f \in upFiles : f.sid = sid /\ StartsWith(f.name, fid \o <<"_">>)

\* C28: under any interleaving of concurrent GetFile requests, their
\* reconstruct-and-cache path included, and DeleteFile requests for the
\* same file, once a DeleteFile has returned success (the only way a stored
\* file leaves the disk here) and all in-flight requests have finished, the
\* in-memory index holds no record for that file.
C28_DeletedFileNotReinserted ==
    AllIdle =>
       \A sid \in Sessions, fid \in StoredIds :
          ~StoredOnDisk(sid, fid) => ~Indexed(sessions, sid, fid)

\* C29: under any interleaving of an upload (save the file, then AddFile)
\* with a concurrent DeleteSession of the same session, AddFile never fails
\* with an error on a session entry removed between its existence check and
\* its insert, and when all requests have finished the index holds no record
\* for a file whose bytes the cleanup removed.
C29_UploadSafeAgainstCleanup ==
    /\ ret.op = "upload" => ret.error # "KeyError"
    /\ AllIdle =>
          \A sid \in DOMAIN sessions :
             \A fid \in DOMAIN sessions[sid].files :
                PathExists(upFiles, sessions[sid].files[fid].path)

----------------------------------------------------------------------------
(* Claims about the two passes of the sweep *)

\* the folders under the upload root whose modification time is more than
\* max_age_hours old
OldFolders(max_age_hours) ==
    {d \in DOMAIN upDirs : now - upDirs[d] > max_age_hours}

\* C30: the two sweep passes are independent: in every invocation of
\* SweepExpired in which the file system lets folders be removed, the pass
\* over the folders removes every folder under the upload root whose
\* modification time is older than maxAge, however many in-memory sessions
\* the first pass evicted and whether or not the first pass failed.
C30_OrphanPassAlwaysRuns ==
    [][SweepStep =>
          \A d \in OldFolders(ret'.max_age) : d \notin DOMAIN upDirs']_vars

\* the step is a call of cleanup_old_sessions, whether or not rmtree succeeds
SweepCall ==
    /\ ret'.op = "sweep"
    /\ ret'.at = now'

\* before the call, session sid is in memory with a creation time not older
\* than max_age_hours and has a folder whose modification time is not older
\* than max_age_hours
FreshSession(sid, max_age_hours) ==
    /\ sid \in DOMAIN sessions
    /\ now - sessions[sid].created_at <= max_age_hours
    /\ sid \in DOMAIN upDirs
    /\ now - upDirs[sid] <= max_age_hours

----------------------------------------------------------------------------
(* Further claims about batch calls *)

\* C32: a batch thumbnail request for a file that is found, with more page
\* numbers than the fixed maximum (200), is rejected with a validation
\* error and renders nothing; it is not truncated to its first 200 pages.
C32_OversizedBatchRejected ==
    [][(/\ ret'.op = "batch"
        /\ ret'.recs # {}
        /\ Len(ret'.pages) > BATCH_LIMIT)
          => /\ ret'.status = 400
             /\ ret'.results = <<>>
             /\ thumbFiles' = thumbFiles]_vars

\* the pool threads of the batch call that is being served
BatchPool == {w \in Workers : workers[w].kind = "batch"}

\* the step is the response of a batch call made with force_regenerate in
\* which generate_page_thumbnail never returned False
ForcedBatchResponds ==
    /\ BatchPool # {}
    /\ \A w \in BatchPool :
          /\ workers[w].pc = "joined"
          /\ workers'[w].pc = "idle"
          /\ workers[w].force
          /\ ~(workers[w].converted /\ workers[w].path = {})

\* C33: in a batch thumbnail call with force_regenerate set, if no render
\* fails then every returned result has status success and the cache file
\* of every requested page exists when the call returns, for every page
\* list, lists that repeat a page number included, and under every
\* interleaving of the call's worker threads.
C33_ForcedBatchAllSucceed ==
    [][ForcedBatchResponds =>
          \A w \in BatchPool :
             /\ workers[w].status = "success"
             /\ \A q \in workers[w].key : ThumbExists(thumbFiles', q)]_vars

----------------------------------------------------------------------------
(* Further claims about merge jobs *)

\* C34: merge jobs survive file deletion: a DeleteFile leaves every job
\* registry entry and every merge artifact unchanged, and the status lookup
\* and the download of a job whose merge completed succeed also after its
\* source files were deleted, the download sending the job's output file.
C34_JobsSurviveFileDeletion ==
    [][/\ ret'.op = "delete" =>
             /\ job_manager' = job_manager
             /\ mergedDirs' = mergedDirs
             /\ mergedFiles' = mergedFiles
       /\ (ret'.op \in {"status", "download"} /\ ret'.job_id \in DOMAIN jobLog) =>
             /\ ret'.status = 200
             /\ \A j \in ret'.job : j.output_path = jobLog[ret'.job_id].output_path
             /\ ret'.op = "download" =>
                   ret'.sent = {jobLog[ret'.job_id].output_path}]_vars

\* the download of a completed merge of both uploaded files succeeds after
\* both files were deleted
C34_Witness ==
    /\ ret.op = "download"
    /\ ret.ok
    /\ ret.job_id \in DOMAIN jobLog
    /\ jobLog[ret.job_id].total_pages = 4
    /\ upFiles = {}
    /\ \A sid \in DOMAIN sessions : DOMAIN sessions[sid].files = {}

\* C35: the job registry only ever holds terminal records, and a job whose
\* id the merge route drew is reported with status completed by a status
\* lookup, also one that restores the job from disk, only if its merge
\* finished successfully; a merge that failed is never observable as a
\* completed job.
C35_OnlySuccessfulMergesCompleted ==
    /\ \A j \in DOMAIN job_manager :
          job_manager[j].status \in {"completed", "failed"}
    /\ (ret.op = "status" /\ ret.job_id \in usedJobIds) =>
          \A j \in ret.job : j.status = "completed" => ret.job_id \in DOMAIN jobLog

----------------------------------------------------------------------------
(* Claims about sessions side by side *)

\* the files on disk in the folder of session sid
FolderFiles(files, sid) == {f \in files : f.sid = session_dir(sid)}

\* the step is AddFile (an upload), GetFile, ListFiles, DeleteFile or
\* DeleteSession applied to session sid
CallOn(sid) ==
    /\ ret'.op \in {"upload", "get", "list", "delete", "delete_session"}
    /\ ret'.sid = sid

\* C36: sessions are independent: AddFile, GetFile, ListFiles, DeleteFile
\* and DeleteSession applied to a session leave the index entry and the
\* on-disk files of every other session the registry holds unchanged, and
\* GetFile and ListFiles on a session return only files of its own folder.
C36_SessionsIndependent ==
    [][\A sid \in FormSessions :
          CallOn(sid) =>
             /\ \A other \in (DOMAIN sessions) \ {sid} :
                   /\ other \in DOMAIN sessions'
                   /\ sessions'[other] = sessions[other]
                   /\ FolderFiles(upFiles', other) = FolderFiles(upFiles, other)
             /\ ret'.op \in {"get", "list"} =>
                   \A r \in ret'.recs : r.info.path.sid = session_dir(sid)]_vars

\* the call before this step was a DeleteSession of session sid that
\* succeeded
JustDeleted(sid) == ret.op = "delete_session" /\ ret.ok /\ ret.sid = sid

\* C37: DeleteSession destroys the session and is idempotent: after a
\* successful DeleteSession(s) the session has neither an in-memory record
\* nor an upload folder; a ListFiles(s) that follows is empty and a
\* GetFile(s, f) that follows finds nothing, for every f; a second
\* DeleteSession(s) returns success and changes nothing.
C37_DeleteSessionDestroysAndIsIdempotent ==
    [][/\ (ret'.op = "delete_session" /\ ret'.ok) =>
             /\ ret'.sid \notin DOMAIN sessions'
             /\ ~session_folder_exists([sessions |-> sessions', dirs |-> upDirs',
                                        files |-> upFiles'], ret'.sid)
             /\ FolderFiles(upFiles', ret'.sid) = {}
       /\ (ret'.op \in {"list", "get"} /\ JustDeleted(ret'.sid)) =>
             /\ ret'.recs = {}
             /\ ~ret'.ok \/ ret'.op = "list"
       /\ (ret'.op = "delete_session" /\ ret'.sid \in ret'.was) =>
             /\ ret'.ok
             /\ ret'.status = 200
             /\ sessions' = sessions
             /\ upDirs' = upDirs
             /\ upFiles' = upFiles]_vars

\* a session that held an uploaded file was deleted, and the DeleteSession
\* was repeated; no folder is left
C37_Witness ==
    /\ ret.op = "delete_session"
    /\ ret.sid \in ret.was
    /\ ret.ok
    /\ Cardinality(usedIds) = 1
    /\ upDirs = EmptyMap
    /\ upFiles = {}
    /\ sessions = EmptyMap

----------------------------------------------------------------------------
(* Claims about the pagination of the page listing *)

\* the page numbers get_pages_list returns for page q of per_page numbers
\* of a file of page_count pages
ListedOn(q, per_page, page_count) ==
    LET p == pagination(q, per_page, page_count)
    IN  {n \in 1..(MaxListedPages + PER_PAGE_LIMIT) :
            p.start_page <= n /\ n <= p.end_page}

\* the least k with k * b >= a
CeilDiv(a, b) == CHOOSE k \in 0..a : k * b >= a /\ (k = 0 \/ (k - 1) * b < a)

\* C38: the paginated page listing partitions the file's pages: for every
\* page_count >= 0 and per_page in 1..200, total_pages is
\* ceil(page_count / per_page); the page numbers returned for a current page
\* are contiguous and ascending and lie within 1..page_count; those of the
\* current pages 1..total_pages are pairwise disjoint and together cover
\* 1..page_count; a current page beyond total_pages returns an empty list.
C38_PaginationPartitionsPages ==
    ret.op = "paginate" =>
       LET numbers == [k \in DOMAIN ret.results |-> ret.results[k].page_number]
           given == {numbers[k] : k \in DOMAIN numbers}
       IN  /\ ret.total_pages = CeilDiv(ret.page_count, ret.at)
           /\ \A k \in DOMAIN numbers : numbers[k] \in 1..ret.page_count
           /\ \A k \in DOMAIN numbers : k > 1 => numbers[k] = numbers[k - 1] + 1
           /\ given = ListedOn(ret.page, ret.at, ret.page_count)
           /\ \A n \in 1..ret.page_count :
                 Cardinality({q \in 1..ret.total_pages :
                                 n \in ListedOn(q, ret.at, ret.page_count)}) = 1
           /\ \A q \in 1..ret.total_pages :
                 ListedOn(q, ret.at, ret.page_count) \subseteq 1..ret.page_count
           /\ ret.page > ret.total_pages => ret.results = <<>>

\* the last page of a listing of 7 pages by 3 holds the page number 7 alone
C38_Witness ==
    /\ ret.op = "paginate"
    /\ ret.page_count = 7
    /\ ret.at = 3
    /\ ret.page = 3
    /\ ret.total_pages = 3
    /\ Len(ret.results) = 1
    /\ ret.results[1].page_number = 7

====
